---------------------------- MODULE Spec2Model ----------------------------
(***************************************************************************)
(* Model of the MPEG-DASH MPD codec of mc2soft/mpd.                        *)
(*                                                                         *)
(* Two snapshots of the codec are modelled: the current one                *)
(* (src/unnamed/part_003: modifyMPD and helpers, copyobj) and the earlier  *)
(* one of src/mpd.go (modifyXMLStuct).  Both use Go's encoding/xml and     *)
(* strconv, which are modelled by what they do on the inputs enumerated.   *)
(*                                                                         *)
(* A Go string or byte buffer is a sequence of tokens.  A token is either  *)
(* a maximal run of ASCII letters (any token not in Chars) or a single     *)
(* non-letter character (a member of Chars).                               *)
(***************************************************************************)
EXTENDS Integers, Sequences, FiniteSets, TLC

VARIABLES
    cu,       \* a ConditionalUint value held by a caller
    cuRes,    \* what the last operation on cu returned
    mpd,      \* the Document Model instance of the current snapshot (*MPD)
    src,      \* how mpd got its present value: "new", "built" or "decoded"
    nodes,    \* number of nodes the caller has added to the document it builds
    buf,      \* the byte buffer last handed to Decode, and where it came from
    res,      \* what the last Decode / Encode returned
    old,      \* the Document Model instance of the src/mpd.go snapshot
    oldRes,   \* what the last Encode / Decode of the src/mpd.go snapshot returned
    pkg,      \* the package-level variables
    calls     \* per Document Model instance: the document and the call running on it

vars == <<cu, cuRes, mpd, src, nodes, buf, res, old, oldRes, pkg, calls>>

-----------------------------------------------------------------------------
(* Bounds of the model.                                                    *)

\* most nodes (periods, adaptation sets, representations, descriptors,
\* segment templates) a caller adds to one document
MaxNodes == 4

-----------------------------------------------------------------------------
(* Go values.                                                              *)

\* the nil pointer / nil slice
Nil == [nil |-> TRUE]

\* a pointer to a freshly allocated cell holding v; `own` names the object
\* graph the cell was allocated for
NewPtr(v, o) == [val |-> v, own |-> o]

Digits == {"0", "1", "2", "3", "4", "5", "6", "7", "8", "9"}

\* the single-character tokens ("  " is one step of indentation, two spaces);
\* every other token is a run of letters
Chars == Digits \cup {"<", ">", "/", "=", "\"", " ", "\n", ":", "_", "-", "+",
                      ".", "?", "&", ";", "#", "'", "\t", "  ", "!", "$"}

IsLetters(tok) == tok \notin Chars

WhiteSpace == {" ", "  ", "\n", "\t"}

DigitVal(c) ==
    CASE c = "0" -> 0 [] c = "1" -> 1 [] c = "2" -> 2 [] c = "3" -> 3
      [] c = "4" -> 4 [] c = "5" -> 5 [] c = "6" -> 6 [] c = "7" -> 7
      [] c = "8" -> 8 [] c = "9" -> 9

DigitTok(d) ==
    CASE d = 0 -> "0" [] d = 1 -> "1" [] d = 2 -> "2" [] d = 3 -> "3"
      [] d = 4 -> "4" [] d = 5 -> "5" [] d = 6 -> "6" [] d = 7 -> "7"
      [] d = 8 -> "8" [] d = 9 -> "9"

\* the indices of a sequence, in order
Indices(s) == [i \in 1..Len(s) |-> i]

\* the values of a function on 1..n, computed once, as a sequence
Tabulate(f, n) == SubSeq(f, 1, n)

\* the sequence lo, lo+1, ..., hi
Range(lo, hi) == [i \in 1..(IF hi < lo THEN 0 ELSE hi - lo + 1) |-> lo + i - 1]

\* the positions of s that hold tok, in increasing order
Positions(s, tok) == SelectSeq(Indices(s), LAMBDA i : s[i] = tok)

\* the least member of a non-empty set of numbers
Min(S) == CHOOSE x \in S : \A y \in S : x <= y

\* the greatest member of a non-empty set of numbers
Max(S) == CHOOSE x \in S : \A y \in S : x >= y

Reverse(s) == [i \in 1..Len(s) |-> s[Len(s) + 1 - i]]

RECURSIVE Flatten(_, _, _)
\* the concatenation of the sequences ss[lo], ..., ss[hi], by halves
Flatten(ss, lo, hi) ==
    IF lo > hi THEN <<>>
    ELSE IF lo = hi THEN ss[lo]
    ELSE LET mid == (lo + hi) \div 2
         IN Flatten(ss, lo, mid) \o Flatten(ss, mid + 1, hi)

\* the concatenation of the sequences of ss, which are computed first
Concat(ss) == Flatten(ss, 1, Len(ss))

\* for _, x := range xs { out = append(out, F(x)) }
MapSeq(F(_), xs) == Tabulate([i \in 1..Len(xs) |-> F(xs[i])], Len(xs))

\* strings.TrimSpace
TrimSpace(s) ==
    LET keep == SelectSeq(Indices(s), LAMBDA i : s[i] \notin WhiteSpace)
    IN IF keep = <<>> THEN <<>> ELSE SubSeq(s, keep[1], keep[Len(keep)])

-----------------------------------------------------------------------------
(* strconv.  A uint64 is the sequence of its decimal digits (numbers 0..9), *)
(* least significant first, without high zeros: zero is <<>>.  An int64 is *)
(* a sign and such a magnitude.                                            *)

\* 1<<64 - 1, the largest uint64, in decimal
MaxUint64Digits ==
    <<"1","8","4","4","6","7","4","4","0","7","3","7","0","9","5","5","1","6","1","5">>

\* 1<<63, one more than the largest int64, in decimal
MinInt64Digits ==
    <<"9","2","2","3","3","7","2","0","3","6","8","5","4","7","7","5","8","0","8">>

\* a digit string without its leading zeros
StripZeros(ds) ==
    LET nz == SelectSeq(Indices(ds), LAMBDA i : ds[i] # "0")
    IN IF nz = <<>> THEN <<>> ELSE SubSeq(ds, nz[1], Len(ds))

\* a < b for two digit strings of the same length
DigitsLess(a, b) ==
    LET df == SelectSeq(Indices(a), LAMBDA i : a[i] # b[i])
    IN df # <<>> /\ DigitVal(a[df[1]]) < DigitVal(b[df[1]])

\* the number written ds is greater than the number written lim
DigitsExceed(ds, lim) ==
    LET n == StripZeros(ds) IN
    \/ Len(n) > Len(lim)
    \/ Len(n) = Len(lim) /\ DigitsLess(lim, n)

\* the value a digit string denotes
DigitsToUint(ds) == LET n == StripZeros(ds) IN Reverse([i \in 1..Len(n) |-> DigitVal(n[i])])

\* the uint64 of a small number of the model
RECURSIVE Uint64(_)
Uint64(n) == IF n = 0 THEN <<>> ELSE <<n % 10>> \o Uint64(n \div 10)

\* a ParseUint that stops at 1<<64 - 1 instead of failing: digits that
\* denote more are read as the largest uint64
ParseUintSaturating(s) ==
    IF s = <<>> \/ \E i \in 1..Len(s) : s[i] \notin Digits
    THEN [err |-> [msg |-> "ErrSyntax"], n |-> <<>>]
    ELSE IF DigitsExceed(s, MaxUint64Digits)
    THEN [err |-> Nil, n |-> DigitsToUint(MaxUint64Digits)]
    ELSE [err |-> Nil, n |-> DigitsToUint(s)]

\* strconv.ParseUint(s, 10, 64): the characters are consumed in order; the
\* first one that is not a digit is a syntax error, unless the digits before
\* it already exceed 1<<64 - 1, which is a range error
ParseUint(s) ==
    LET bad  == SelectSeq(Indices(s), LAMBDA i : s[i] \notin Digits)
        lead == IF bad = <<>> THEN s ELSE SubSeq(s, 1, bad[1] - 1)
    IN IF s = <<>> THEN [err |-> [msg |-> "ErrSyntax"], n |-> <<>>]
       ELSE IF DigitsExceed(lead, MaxUint64Digits) THEN [err |-> [msg |-> "ErrRange"], n |-> <<>>]
       ELSE IF bad # <<>> THEN [err |-> [msg |-> "ErrSyntax"], n |-> <<>>]
       ELSE [err |-> Nil, n |-> DigitsToUint(s)]

\* a ParseBool that reads every literal it accepts as true
ParseBoolTrue(s) ==
    IF s \in {<<"1">>, <<"t">>, <<"T">>, <<"TRUE">>, <<"true">>, <<"True">>,
              <<"0">>, <<"f">>, <<"F">>, <<"FALSE">>, <<"false">>, <<"False">>}
    THEN [err |-> Nil, b |-> TRUE]
    ELSE [err |-> [msg |-> "ErrSyntax"], b |-> FALSE]

\* strconv.ParseBool(s)
ParseBool(s) ==
    IF s \in {<<"1">>, <<"t">>, <<"T">>, <<"TRUE">>, <<"true">>, <<"True">>}
    THEN [err |-> Nil, b |-> TRUE]
    ELSE IF s \in {<<"0">>, <<"f">>, <<"F">>, <<"FALSE">>, <<"false">>, <<"False">>}
    THEN [err |-> Nil, b |-> FALSE]
    ELSE [err |-> [msg |-> "ErrSyntax"], b |-> FALSE]

\* strconv.FormatUint(n, 10)
FormatUint(n) ==
    IF n = <<>> THEN <<"0">> ELSE Reverse([i \in 1..Len(n) |-> DigitTok(n[i])])

\* strconv.FormatInt(n, 10)
FormatInt(n) == IF n.neg THEN <<"-">> \o FormatUint(n.mag) ELSE FormatUint(n.mag)

\* a FormatBool that writes the numeric literals ParseBool also reads
FormatBoolNumeric(b) == IF b THEN <<"1">> ELSE <<"0">>

\* strconv.FormatBool(b)
FormatBool(b) == IF b THEN <<"true">> ELSE <<"false">>

\* the int64 of a small number of the model
Int64(n) == [neg |-> n < 0, mag |-> Uint64(IF n < 0 THEN 0 - n ELSE n)]

\* the second half of strconv.ParseInt: the sign put on what ParseUint
\* made of the digits u; the magnitude may reach 1<<63 - 1, or 1<<63 after
\* a minus sign
ParseIntSigned(neg, u) ==
    LET zero == [neg |-> FALSE, mag |-> <<>>]
    IN CASE u.err # Nil -> [err |-> u.err, n |-> zero]
         [] \/ DigitsExceed(FormatUint(u.n), MinInt64Digits)
            \/ ~neg /\ FormatUint(u.n) = MinInt64Digits ->
               [err |-> [msg |-> "ErrRange"], n |-> zero]
         [] OTHER -> [err |-> Nil, n |-> [neg |-> neg /\ u.n # <<>>, mag |-> u.n]]

\* strconv.ParseInt(s, 10, 64): an optional sign, then the digits
ParseInt(s) ==
    IF s = <<>> THEN [err |-> [msg |-> "ErrSyntax"], n |-> [neg |-> FALSE, mag |-> <<>>]]
    ELSE ParseIntSigned(Head(s) = "-",
                        ParseUint(IF Head(s) \in {"+", "-"} THEN Tail(s) ELSE s))

-----------------------------------------------------------------------------
(* ConditionalUint                                                         *)

\* the zero ConditionalUint{}
ConditionalUint == [u |-> Nil, b |-> Nil]

\* xml.Attr{} : the zero attribute, whose empty Name.Local makes the encoder
\* leave the attribute out
NoAttr == [Name |-> <<>>, Value |-> <<>>]

\* a MarshalXMLAttr that writes false when both alternatives are nil, as a
\* reader of the manifest would take the missing attribute
MarshalXMLAttrFalse(c, name) ==
    IF c.u # Nil THEN [Name |-> name, Value |-> FormatUint(c.u.val)]
    ELSE IF c.b # Nil THEN [Name |-> name, Value |-> FormatBool(c.b.val)]
    ELSE [Name |-> name, Value |-> <<"false">>]

\* func (c ConditionalUint) MarshalXMLAttr(name xml.Name) (xml.Attr, error)
MarshalXMLAttr(c, name) ==
    IF c.u # Nil THEN [Name |-> name, Value |-> FormatUint(c.u.val)]
    ELSE IF c.b # Nil THEN [Name |-> name, Value |-> FormatBool(c.b.val)]
    ELSE NoAttr

\* func (c *ConditionalUint) UnmarshalXMLAttr(attr xml.Attr) error
\* returns the value c is left with (v) and the error
UnmarshalXMLAttr(c, attr) ==
    CASE ParseUint(attr.Value).err = Nil ->
            [v |-> [c EXCEPT !.u = NewPtr(ParseUint(attr.Value).n, "doc")], err |-> Nil]
      [] ParseBool(attr.Value).err = Nil ->
            [v |-> [c EXCEPT !.b = NewPtr(ParseBool(attr.Value).b, "doc")], err |-> Nil]
      [] OTHER ->
            [v |-> c,
             err |-> [msg |-> "ConditionalUint: can't UnmarshalXMLAttr", attr |-> attr]]
-----------------------------------------------------------------------------
(* Struct types: one descriptor per field, in declaration order, read off  *)
(* the `xml:"..."` tags.  A name is the token sequence of the tag's name.  *)
(* The types of the src/mpd.go snapshot are prefixed "old.".               *)

\* an attribute field: `xml:"name,attr[,omitempty]"`
Attr(go, name, kind, omit) ==
    [go |-> go, name |-> name, mode |-> "attr", kind |-> kind, omit |-> omit,
     type |-> "", parents |-> <<>>]

\* an element field: `xml:"[parent>]name[,omitempty]"`
Elt(go, name, kind, omit, type, parents) ==
    [go |-> go, name |-> name, mode |-> "elem", kind |-> kind, omit |-> omit,
     type |-> type, parents |-> parents]

\* a character-data field: `xml:",chardata"`
CharData(go, kind) ==
    [go |-> go, name |-> <<>>, mode |-> "chardata", kind |-> kind, omit |-> FALSE,
     type |-> "", parents |-> <<>>]

\* Role, SupplementalProperty, AudioChannelConfiguration and their Marshal
\* twins all have the same two fields
DescriptorFields ==
    << Attr("SchemeIdUri", <<"schemeIdUri">>, "pstring", TRUE),
       Attr("Value", <<"value">>, "pstring", TRUE) >>

SegmentTemplateFields ==
    << Attr("Timescale", <<"timescale">>, "puint", FALSE),
       Attr("Media", <<"media">>, "pstring", FALSE),
       Attr("Initialization", <<"initialization">>, "pstring", FALSE),
       Attr("StartNumber", <<"startNumber">>, "puint", FALSE),
       Attr("PresentationTimeOffset", <<"presentationTimeOffset">>, "puint", FALSE),
       Elt("SegmentTimelineS", <<"S">>, "slice", TRUE, "SegmentTimelineS",
           <<"SegmentTimeline">>) >>

SegmentTimelineSFields ==
    << Attr("T", <<"t">>, "puint", FALSE),
       Attr("D", <<"d">>, "uint", FALSE),
       Attr("R", <<"r">>, "pint", FALSE) >>

\* type mpdMarshal struct
mpdMarshalFields ==
    << Attr("XSI", <<"xmlns", ":", "xsi">>, "pstring", TRUE),
       Attr("Cenc", <<"xmlns", ":", "cenc">>, "pstring", TRUE),
       Attr("XMLNS", <<"xmlns">>, "pstring", FALSE),
       Attr("XSISchemaLocation", <<"xsi", ":", "schemaLocation">>, "pstring", FALSE),
       Attr("ID", <<"id">>, "pstring", FALSE),
       Attr("Type", <<"type">>, "pstring", FALSE),
       Attr("PublishTime", <<"publishTime">>, "pstring", FALSE),
       Attr("MinimumUpdatePeriod", <<"minimumUpdatePeriod">>, "pstring", FALSE),
       Attr("AvailabilityStartTime", <<"availabilityStartTime">>, "pstring", FALSE),
       Attr("MediaPresentationDuration", <<"mediaPresentationDuration">>, "pstring", FALSE),
       Attr("MinBufferTime", <<"minBufferTime">>, "pstring", FALSE),
       Attr("SuggestedPresentationDelay", <<"suggestedPresentationDelay">>, "pstring", FALSE),
       Attr("TimeShiftBufferDepth", <<"timeShiftBufferDepth">>, "pstring", FALSE),
       Attr("Profiles", <<"profiles">>, "string", FALSE),
       Attr("SCTE35", <<"xmlns", ":", "scte", "3", "5">>, "pstring", TRUE),
       Elt("BaseURL", <<"BaseURL">>, "pstring", TRUE, "", <<>>),
       Elt("Period", <<"Period">>, "slice", TRUE, "periodMarshal", <<>>) >>

\* type MPD struct
MPDFields ==
    << Attr("XMLNS", <<"xmlns">>, "pstring", FALSE),
       Attr("Type", <<"type">>, "pstring", FALSE),
       Attr("MinimumUpdatePeriod", <<"minimumUpdatePeriod">>, "pstring", FALSE),
       Attr("AvailabilityStartTime", <<"availabilityStartTime">>, "pstring", FALSE),
       Attr("MediaPresentationDuration", <<"mediaPresentationDuration">>, "pstring", FALSE),
       Attr("MinBufferTime", <<"minBufferTime">>, "pstring", FALSE),
       Attr("SuggestedPresentationDelay", <<"suggestedPresentationDelay">>, "pstring", FALSE),
       Attr("TimeShiftBufferDepth", <<"timeShiftBufferDepth">>, "pstring", FALSE),
       Attr("PublishTime", <<"publishTime">>, "pstring", FALSE),
       Attr("Profiles", <<"profiles">>, "string", FALSE),
       Attr("XSI", <<"xsi">>, "pstring", TRUE),
       Attr("Cenc", <<"cenc">>, "pstring", TRUE),
       Attr("SCTE35", <<"scte", "3", "5">>, "pstring", TRUE),
       Attr("XSISchemaLocation", <<"schemaLocation">>, "pstring", FALSE),
       Attr("ID", <<"id">>, "pstring", FALSE),
       Elt("BaseURL", <<"BaseURL">>, "pstring", TRUE, "", <<>>),
       Elt("Period", <<"Period">>, "slice", TRUE, "Period", <<>>) >>

\* type Period struct / type periodMarshal struct
PeriodFields(asType) ==
    << Attr("Start", <<"start">>, "pstring", FALSE),
       Attr("ID", <<"id">>, "pstring", FALSE),
       Attr("Duration", <<"duration">>, "pstring", FALSE),
       Elt("AdaptationSets", <<"AdaptationSet">>, "pslice", TRUE, asType, <<>>) >>

\* type AdaptationSet struct / type adaptationSetMarshal struct
AdaptationSetFields(roleType, drmType, repType, suppType) ==
    << Elt("Role", <<"Role">>, "pstruct", TRUE, roleType, <<>>),
       Attr("MimeType", <<"mimeType">>, "string", TRUE),
       Attr("SegmentAlignment", <<"segmentAlignment">>, "cuint", FALSE),
       Attr("StartWithSAP", <<"startWithSAP">>, "puint", FALSE),
       Attr("BitstreamSwitching", <<"bitstreamSwitching">>, "pbool", FALSE),
       Attr("SubsegmentAlignment", <<"subsegmentAlignment">>, "cuint", FALSE),
       Attr("SubsegmentStartsWithSAP", <<"subsegmentStartsWithSAP">>, "puint", FALSE),
       Attr("Lang", <<"lang">>, "pstring", FALSE),
       Elt("ContentProtections", <<"ContentProtection">>, "slice", TRUE, drmType, <<>>),
       Elt("Representations", <<"Representation">>, "slice", TRUE, repType, <<>>),
       Attr("Codecs", <<"codecs">>, "pstring", FALSE),
       Attr("ContentType", <<"contentType">>, "string", TRUE),
       Attr("ID", <<"id">>, "pstring", FALSE),
       Attr("Width", <<"width">>, "pstring", TRUE),
       Attr("Height", <<"height">>, "pstring", TRUE),
       Attr("MaxWidth", <<"maxWidth">>, "pstring", TRUE),
       Attr("MaxHeight", <<"maxHeight">>, "pstring", TRUE),
       Attr("FrameRate", <<"frameRate">>, "pstring", TRUE),
       Attr("Par", <<"par">>, "pstring", TRUE),
       Elt("SupplementalProperty", <<"SupplementalProperty">>, "pstruct", TRUE, suppType, <<>>) >>

\* type Representation struct / type representationMarshal struct
RepresentationFields(drmType, accType) ==
    << Attr("ID", <<"id">>, "pstring", FALSE),
       Attr("Width", <<"width">>, "puint", FALSE),
       Attr("Height", <<"height">>, "puint", FALSE),
       Attr("SAR", <<"sar">>, "pstring", FALSE),
       Attr("FrameRate", <<"frameRate">>, "pstring", FALSE),
       Attr("Bandwidth", <<"bandwidth">>, "puint", FALSE),
       Attr("AudioSamplingRate", <<"audioSamplingRate">>, "pstring", FALSE),
       Attr("Codecs", <<"codecs">>, "pstring", FALSE),
       Elt("BaseURL", <<"BaseURL">>, "pstring", TRUE, "", <<>>),
       Elt("ContentProtections", <<"ContentProtection">>, "slice", TRUE, drmType, <<>>),
       Elt("SegmentTemplate", <<"SegmentTemplate">>, "pstruct", TRUE, "SegmentTemplate", <<>>),
       Attr("MimeType", <<"mimeType">>, "string", TRUE),
       Elt("AudioChannelConfiguration", <<"AudioChannelConfiguration">>, "pstruct", TRUE,
           accType, <<>>) >>

\* type DRMDescriptor struct
DRMDescriptorFields ==
    << Attr("SchemeIDURI", <<"schemeIdUri">>, "pstring", FALSE),
       Attr("Value", <<"value">>, "pstring", TRUE),
       Attr("CencDefaultKID", <<"default", "_", "KID">>, "pstring", TRUE),
       Attr("Cenc", <<"cenc">>, "pstring", TRUE),
       Elt("Pssh", <<"pssh">>, "pstruct", FALSE, "Pssh", <<>>) >>

\* drmDescriptorMarshal with the names of DRMDescriptor: no prefix on the
\* key id and on the pssh element
drmDescriptorMarshalFieldsUnprefixed ==
    << Attr("SchemeIDURI", <<"schemeIdUri">>, "pstring", FALSE),
       Attr("Value", <<"value">>, "pstring", TRUE),
       Attr("CencDefaultKID", <<"default", "_", "KID">>, "pstring", TRUE),
       Attr("Cenc", <<"xmlns", ":", "cenc">>, "pstring", TRUE),
       Elt("Pssh", <<"pssh">>, "pstruct", FALSE, "psshMarshal", <<>>) >>

\* type drmDescriptorMarshal struct
drmDescriptorMarshalFields ==
    << Attr("SchemeIDURI", <<"schemeIdUri">>, "pstring", FALSE),
       Attr("Value", <<"value">>, "pstring", TRUE),
       Attr("CencDefaultKID", <<"cenc", ":", "default", "_", "KID">>, "pstring", TRUE),
       Attr("Cenc", <<"xmlns", ":", "cenc">>, "pstring", TRUE),
       Elt("Pssh", <<"cenc", ":", "pssh">>, "pstruct", FALSE, "psshMarshal", <<>>) >>

\* type Pssh struct
PsshFields ==
    << Attr("Cenc", <<"cenc">>, "pstring", FALSE),
       CharData("Value", "pstring") >>

\* type psshMarshal struct
psshMarshalFields ==
    << Attr("Cenc", <<"xmlns", ":", "cenc">>, "pstring", FALSE),
       CharData("Value", "pstring") >>

\* src/mpd.go: type MPD struct
OldMPDFields ==
    << Attr("XMLNS", <<"xmlns">>, "pstring", FALSE),
       Attr("Type", <<"type">>, "pstring", FALSE),
       Attr("MinimumUpdatePeriod", <<"minimumUpdatePeriod">>, "pstring", FALSE),
       Attr("AvailabilityStartTime", <<"availabilityStartTime">>, "pstring", FALSE),
       Attr("MediaPresentationDuration", <<"mediaPresentationDuration">>, "pstring", FALSE),
       Attr("MinBufferTime", <<"minBufferTime">>, "pstring", FALSE),
       Attr("SuggestedPresentationDelay", <<"suggestedPresentationDelay">>, "pstring", FALSE),
       Attr("TimeShiftBufferDepth", <<"timeShiftBufferDepth">>, "pstring", FALSE),
       Attr("PublishTime", <<"publishTime">>, "pstring", FALSE),
       Attr("Profiles", <<"profiles">>, "string", FALSE),
       Attr("XSI", <<"xsi">>, "pstring", TRUE),
       Attr("SCTE35", <<"scte", "3", "5">>, "pstring", TRUE),
       Attr("XSISchemaLocation", <<"schemaLocation">>, "pstring", FALSE),
       Attr("ID", <<"id">>, "pstring", FALSE),
       Elt("Period", <<"Period">>, "pstruct", TRUE, "old.Period", <<>>) >>

\* src/mpd.go: type mpdMarshal struct
OldmpdMarshalFields ==
    << Attr("XSI", <<"xmlns", ":", "xsi">>, "pstring", TRUE),
       Attr("XMLNS", <<"xmlns">>, "pstring", FALSE),
       Attr("XSISchemaLocation", <<"xsi", ":", "schemaLocation">>, "pstring", FALSE),
       Attr("ID", <<"id">>, "pstring", FALSE),
       Attr("Type", <<"type">>, "pstring", FALSE),
       Attr("PublishTime", <<"publishTime">>, "pstring", FALSE),
       Attr("MinimumUpdatePeriod", <<"minimumUpdatePeriod">>, "pstring", FALSE),
       Attr("AvailabilityStartTime", <<"availabilityStartTime">>, "pstring", FALSE),
       Attr("MediaPresentationDuration", <<"mediaPresentationDuration">>, "pstring", FALSE),
       Attr("MinBufferTime", <<"minBufferTime">>, "pstring", FALSE),
       Attr("SuggestedPresentationDelay", <<"suggestedPresentationDelay">>, "pstring", FALSE),
       Attr("TimeShiftBufferDepth", <<"timeShiftBufferDepth">>, "pstring", FALSE),
       Attr("Profiles", <<"profiles">>, "string", FALSE),
       Attr("SCTE35", <<"xmlns", ":", "scte", "3", "5">>, "pstring", TRUE),
       Elt("Period", <<"Period">>, "pstruct", TRUE, "old.PeriodMarshal", <<>>) >>

\* src/mpd.go: type AdaptationSet struct / type adaptationSetMarshal struct
OldAdaptationSetFields(repType) ==
    << Attr("MimeType", <<"mimeType">>, "string", FALSE),
       Attr("SegmentAlignment", <<"segmentAlignment">>, "cuint", FALSE),
       Attr("StartWithSAP", <<"startWithSAP">>, "puint", FALSE),
       Attr("BitstreamSwitching", <<"bitstreamSwitching">>, "pbool", FALSE),
       Attr("SubsegmentAlignment", <<"subsegmentAlignment">>, "cuint", FALSE),
       Attr("SubsegmentStartsWithSAP", <<"subsegmentStartsWithSAP">>, "puint", FALSE),
       Attr("Lang", <<"lang">>, "pstring", FALSE),
       Elt("Representations", <<"Representation">>, "slice", TRUE, repType, <<>>),
       Attr("Codecs", <<"codecs">>, "pstring", FALSE) >>

\* src/mpd.go: type Representation struct / type representationMarshal struct
OldRepresentationFields(drmType) ==
    << Attr("ID", <<"id">>, "pstring", FALSE),
       Attr("Width", <<"width">>, "puint", FALSE),
       Attr("Height", <<"height">>, "puint", FALSE),
       Attr("SAR", <<"sar">>, "pstring", FALSE),
       Attr("FrameRate", <<"frameRate">>, "pstring", FALSE),
       Attr("Bandwidth", <<"bandwidth">>, "puint", FALSE),
       Attr("AudioSamplingRate", <<"audioSamplingRate">>, "pstring", FALSE),
       Attr("Codecs", <<"codecs">>, "pstring", FALSE),
       Elt("ContentProtections", <<"ContentProtection">>, "slice", TRUE, drmType, <<>>),
       Elt("SegmentTemplate", <<"SegmentTemplate">>, "pstruct", TRUE, "SegmentTemplate", <<>>) >>

\* the XMLName field's tag and the fields of each struct type
TypeInfo(t) ==
    CASE t = "MPD" -> [XMLName |-> <<"MPD">>, fields |-> MPDFields]
      [] t = "mpdMarshal" -> [XMLName |-> <<"MPD">>, fields |-> mpdMarshalFields]
      [] t = "Period" -> [XMLName |-> <<>>, fields |-> PeriodFields("AdaptationSet")]
      [] t = "periodMarshal" ->
            [XMLName |-> <<>>, fields |-> PeriodFields("adaptationSetMarshal")]
      [] t = "AdaptationSet" ->
            [XMLName |-> <<>>,
             fields |-> AdaptationSetFields("Role", "DRMDescriptor", "Representation",
                                            "SupplementalProperty")]
      [] t = "adaptationSetMarshal" ->
            [XMLName |-> <<>>,
             fields |-> AdaptationSetFields("roleMarshal", "drmDescriptorMarshal",
                                            "representationMarshal",
                                            "supplementalPropertyMarshal")]
      [] t \in {"Role", "roleMarshal", "SupplementalProperty",
                "supplementalPropertyMarshal", "AudioChannelConfiguration",
                "audioChannelConfigurationMarshal"} ->
            [XMLName |-> <<>>, fields |-> DescriptorFields]
      [] t = "Representation" ->
            [XMLName |-> <<>>,
             fields |-> RepresentationFields("DRMDescriptor", "AudioChannelConfiguration")]
      [] t = "representationMarshal" ->
            [XMLName |-> <<>>,
             fields |-> RepresentationFields("drmDescriptorMarshal",
                                             "audioChannelConfigurationMarshal")]
      [] t = "DRMDescriptor" -> [XMLName |-> <<>>, fields |-> DRMDescriptorFields]
      [] t = "drmDescriptorMarshal" ->
            [XMLName |-> <<>>, fields |-> drmDescriptorMarshalFields]
      [] t = "Pssh" -> [XMLName |-> <<>>, fields |-> PsshFields]
      [] t = "psshMarshal" -> [XMLName |-> <<>>, fields |-> psshMarshalFields]
      [] t = "SegmentTemplate" -> [XMLName |-> <<>>, fields |-> SegmentTemplateFields]
      [] t = "SegmentTimelineS" -> [XMLName |-> <<>>, fields |-> SegmentTimelineSFields]
      [] t = "old.MPD" -> [XMLName |-> <<"MPD">>, fields |-> OldMPDFields]
      [] t = "old.mpdMarshal" -> [XMLName |-> <<"MPD">>, fields |-> OldmpdMarshalFields]
      [] t = "old.Period" -> [XMLName |-> <<>>, fields |-> PeriodFields("old.AdaptationSet")]
      [] t = "old.PeriodMarshal" ->
            [XMLName |-> <<>>, fields |-> PeriodFields("old.adaptationSetMarshal")]
      [] t = "old.AdaptationSet" ->
            [XMLName |-> <<>>, fields |-> OldAdaptationSetFields("old.Representation")]
      [] t = "old.adaptationSetMarshal" ->
            [XMLName |-> <<>>, fields |-> OldAdaptationSetFields("old.representationMarshal")]
      [] t = "old.Representation" ->
            [XMLName |-> <<>>, fields |-> OldRepresentationFields("old.Descriptor")]
      [] t = "old.representationMarshal" ->
            [XMLName |-> <<>>, fields |-> OldRepresentationFields("old.descriptorMarshal")]
      [] t = "old.Descriptor" -> [XMLName |-> <<>>, fields |-> DRMDescriptorFields]
      [] t = "old.descriptorMarshal" ->
            [XMLName |-> <<"ContentProtection">>, fields |-> drmDescriptorMarshalFields]

-----------------------------------------------------------------------------
(* encoding/xml, marshalling: a struct value to a tree of elements, the    *)
(* tree to text.                                                           *)

\* an element: its name, its attributes [Name, Value] in order, its child
\* elements in order and its character data
Element(name, attrs, kids, text) ==
    [name |-> name, attrs |-> attrs, kids |-> kids, text |-> text]

\* an isEmptyValue that takes only nil pointers and empty slices for empty
isEmptyValuePointers(val, kind) ==
    CASE kind \in {"pstring", "puint", "pint", "pbool", "pstruct"} -> val = Nil
      [] kind \in {"slice", "pslice"} -> val = Nil \/ val.elems = <<>>
      [] OTHER -> FALSE

\* isEmptyValue(v reflect.Value), by the kind of the field
isEmptyValue(val, kind) ==
    CASE kind = "string" -> val = <<>>
      [] kind = "uint" -> val = <<>>
      [] kind \in {"pstring", "puint", "pint", "pbool", "pstruct"} -> val = Nil
      [] kind \in {"slice", "pslice"} -> val = Nil \/ val.elems = <<>>
      [] kind = "cuint" -> FALSE

\* printer.marshalSimple: the text of a value of a basic kind
marshalSimple(val, kind) ==
    CASE kind = "string" -> val
      [] kind = "pstring" -> val.val
      [] kind = "uint" -> FormatUint(val)
      [] kind = "puint" -> FormatUint(val.val)
      [] kind = "pint" -> FormatInt(val.val)
      [] kind = "pbool" -> FormatBool(val.val)

\* printer.marshalAttr for one attribute field: the attributes it adds to
\* the start tag (none or one)
marshalAttr(val, f) ==
    IF f.omit /\ isEmptyValue(val, f.kind) THEN <<>>
    ELSE IF f.kind = "cuint"
         THEN LET a == MarshalXMLAttr(val, f.name)
              IN IF a.Name = <<>> THEN <<>> ELSE <<a>>
    ELSE IF f.kind \in {"pstring", "puint", "pint", "pbool"} /\ val = Nil THEN <<>>
    ELSE << [Name |-> f.name, Value |-> marshalSimple(val, f.kind)] >>

\* an attribute loop that writes the attribute fields last to first
marshalAttrsReversed(v, fields) ==
    Concat([i \in 1..Len(fields) |->
               IF fields[Len(fields) + 1 - i].mode = "attr"
               THEN marshalAttr(v[fields[Len(fields) + 1 - i].go],
                                fields[Len(fields) + 1 - i])
               ELSE <<>>])

\* the attribute loop of printer.marshalValue: the attribute fields in
\* declaration order
marshalAttrs(v, fields) ==
    Concat([i \in 1..Len(fields) |->
               IF fields[i].mode = "attr" THEN marshalAttr(v[fields[i].go], fields[i])
               ELSE <<>>])

\* the character data printer.marshalStruct writes for the chardata fields
marshalText(v, fields) ==
    Concat([i \in 1..Len(fields) |->
               IF fields[i].mode = "chardata" /\ v[fields[i].go] # Nil
               THEN v[fields[i].go].val ELSE <<>>])

\* parentStack.push / trim: the elements kids below the parents of an
\* "a>b" tag, or as they are when the tag names no parent
parentStack(parents, kids) ==
    IF parents = <<>> THEN kids ELSE << Element(parents, <<>>, kids, <<>>) >>

RECURSIVE marshalStruct(_, _)
RECURSIVE marshalField(_, _)
RECURSIVE marshalElement(_, _, _)

\* printer.marshalValue for a struct x whose type has the given typeInfo,
\* written under the field's name unless the type has an XMLName
marshalElement(x, name, info) ==
    [name  |-> IF info.XMLName # <<>> THEN info.XMLName ELSE name,
     attrs |-> marshalAttrs(x, info.fields),
     kids  |-> marshalStruct(x, info.fields),
     text  |-> marshalText(x, info.fields)]

\* printer.marshalValue for the element field f holding val: no element
\* when it is nil or omitted as empty, one element per entry when it is a
\* slice (nil entries are passed over), else one element
marshalField(val, f) ==
    LET xs == CASE f.kind = "pstruct" -> << val.val >>
                [] f.kind = "slice" -> val.elems
                [] f.kind = "pslice" ->
                      LET nn == SelectSeq(val.elems, LAMBDA p : p # Nil)
                      IN [i \in 1..Len(nn) |-> nn[i].val]
    IN CASE val = Nil \/ (f.omit /\ isEmptyValue(val, f.kind)) -> <<>>
         [] f.kind = "pstring" -> << Element(f.name, <<>>, <<>>, val.val) >>
         [] OTHER -> Tabulate([i \in 1..Len(xs) |->
                                  marshalElement(xs[i], f.name, TypeInfo(f.type))], Len(xs))

\* the element loop of printer.marshalStruct with its parentStack.  The
\* element fields are taken in declaration order.  A field without parents
\* writes its elements at the top.  A run of consecutive element fields
\* with the same parent ("a>b" tags) shares one <a> wrapper, which is
\* opened by the first field of the run that is not a nil pointer -- an
\* empty slice opens it, also when omitempty then drops the slice -- and
\* which holds what the fields of the run write.
marshalStruct(v, fields) ==
    LET el       == SelectSeq(Indices(fields), LAMBDA i : fields[i].mode = "elem")
        F(k)     == fields[el[k]]
        first(k) == k = 1 \/ F(k - 1).parents # F(k).parents
        last(k)  == IF F(k).parents = <<>> THEN k
                    ELSE Max({e \in k..Len(el) : \A j \in k..e : F(j).parents = F(k).parents})
        opens(k) == ~(F(k).kind \in {"pstruct", "pstring"} /\ v[F(k).go] = Nil)
    IN Concat([k \in 1..Len(el) |->
          IF F(k).parents # <<>> /\ (~first(k) \/ ~(\E j \in k..last(k) : opens(j)))
          THEN <<>>
          ELSE parentStack(F(k).parents,
                           Concat([j \in 1..(last(k) - k + 1) |->
                                      marshalField(v[F(k + j - 1).go], F(k + j - 1))]))])

\* xml.Encoder.Encode(v) for a pointer to a struct of type t: the root element
marshalRoot(v, t) == marshalElement(v, <<>>, TypeInfo(t))

\* the replacement xml.EscapeText writes for one character
EscapeChar(c) ==
    CASE c = "\"" -> <<"&", "#", "3", "4", ";">>
      [] c = "'" -> <<"&", "#", "3", "9", ";">>
      [] c = "&" -> <<"&", "amp", ";">>
      [] c = "<" -> <<"&", "lt", ";">>
      [] c = ">" -> <<"&", "gt", ";">>
      [] c = "\t" -> <<"&", "#", "x", "9", ";">>
      [] c = "\n" -> <<"&", "#", "xA", ";">>
      [] OTHER -> <<c>>

\* xml.EscapeText / printer.EscapeString
EscapeText(s) == Concat([i \in 1..Len(s) |-> EscapeChar(s[i])])

\* the attribute loop of printer.writeStart
writeAttrs(attrs) ==
    Concat([i \in 1..Len(attrs) |->
               <<" ">> \o attrs[i].Name \o <<"=", "\"">> \o EscapeText(attrs[i].Value)
               \o <<"\"">>])

\* printer.writeIndent with Indent("", "  "): depth copies of the indent
Indentation(depth) == [i \in 1..depth |-> "  "]

RECURSIVE writeElement(_, _)

\* writeStart, the content, writeEnd for one element at the given depth:
\* every child element goes on a line of its own, and the end tag follows
\* on the same line unless child elements were written
writeElement(e, depth) ==
    Indentation(depth) \o <<"<">> \o e.name \o writeAttrs(e.attrs) \o <<">">>
    \o EscapeText(e.text)
    \o Concat([i \in 1..Len(e.kids) |-> <<"\n">> \o writeElement(e.kids[i], depth + 1)])
    \o (IF e.kids = <<>> THEN <<>> ELSE <<"\n">> \o Indentation(depth))
    \o <<"<", "/">> \o e.name \o <<">">>

\* enc := xml.NewEncoder(x); enc.Indent("", "  "); err := enc.Encode(v) for a
\* pointer v to a struct of type t: what x holds afterwards and the error
\* (the struct types of this package give the encoder nothing to refuse)
xmlEncode(v, t) == [x |-> writeElement(marshalRoot(v, t), 0), err |-> Nil]

-----------------------------------------------------------------------------
(* copyobj: a nil-safe copy of an optional value into a fresh cell.        *)

\* func String(s *string) *string
copyobj_String(s) == IF s = Nil THEN Nil ELSE NewPtr(s.val, "wire")

\* func Int64(i *int64) *int64
copyobj_Int64(i) == IF i = Nil THEN Nil ELSE NewPtr(i.val, "wire")

\* func UInt64(i *uint64) *uint64
copyobj_UInt64(i) == IF i = Nil THEN Nil ELSE NewPtr(i.val, "wire")

\* func Bool(b *bool) *bool
copyobj_Bool(b) == IF b = Nil THEN Nil ELSE NewPtr(b.val, "wire")

-----------------------------------------------------------------------------
(* The projection of the current snapshot: modifyMPD and its helpers.      *)
(* A slice is Nil or [elems |-> <<...>>]; make([]T, 0, n) is [elems |-> <<>>]. *)
(* Dereferencing a nil *AdaptationSet panics: the projection then has no   *)
(* value, which is the record Panic.                                       *)

Panic == [panic |-> "invalid memory address or nil pointer dereference"]

\* func modifyPssh(p *Pssh) *psshMarshal
modifyPssh(p) ==
    IF p = Nil THEN Nil
    ELSE NewPtr([Cenc  |-> copyobj_String(p.val.Cenc),
                 Value |-> copyobj_String(p.val.Value)], "wire")

\* func modifyRole(r *Role) *roleMarshal
modifyRole(r) ==
    IF r = Nil THEN Nil
    ELSE NewPtr([SchemeIdUri |-> copyobj_String(r.val.SchemeIdUri),
                 Value       |-> copyobj_String(r.val.Value)], "wire")

\* func modifySupplementalProperty(s *SupplementalProperty) *supplementalPropertyMarshal
modifySupplementalProperty(sp) ==
    IF sp = Nil THEN Nil
    ELSE NewPtr([SchemeIdUri |-> copyobj_String(sp.val.SchemeIdUri),
                 Value       |-> copyobj_String(sp.val.Value)], "wire")

\* func modifyAudioChannelConfiguration(a *AudioChannelConfiguration) *audioChannelConfigurationMarshal
modifyAudioChannelConfiguration(a) ==
    IF a = Nil THEN Nil
    ELSE NewPtr([SchemeIdUri |-> copyobj_String(a.val.SchemeIdUri),
                 Value       |-> copyobj_String(a.val.Value)], "wire")

\* the body of the loop of modifyContentProtections
modifyContentProtection(d) ==
    [CencDefaultKID |-> copyobj_String(d.CencDefaultKID),
     SchemeIDURI    |-> copyobj_String(d.SchemeIDURI),
     Value          |-> copyobj_String(d.Value),
     Cenc           |-> copyobj_String(d.Cenc),
     Pssh           |-> modifyPssh(d.Pssh)]

\* the entries a range loop visits: none for a nil slice
Elems(s) == IF s = Nil THEN <<>> ELSE s.elems

\* func modifyContentProtections(ds []DRMDescriptor) []drmDescriptorMarshal
modifyContentProtections(ds) ==
    [elems |-> IF ds = Nil THEN <<>> ELSE MapSeq(modifyContentProtection, ds.elems)]

\* the loop body of copySegmentTimelineS, had it stored through s.T
copySegmentTimelineEntryWriting(e) ==
    [T |-> IF e.T = Nil THEN Nil ELSE [e.T EXCEPT !.val = Uint64(1)],
     D |-> e.D,
     R |-> copyobj_Int64(e.R)]

\* the body of the loop of copySegmentTimelineS
copySegmentTimelineEntry(e) ==
    [T |-> e.T,
     D |-> e.D,
     R |-> copyobj_Int64(e.R)]

\* func copySegmentTimelineS(st []SegmentTimelineS) []SegmentTimelineS
copySegmentTimelineS(st) ==
    [elems |-> IF st = Nil THEN <<>> ELSE MapSeq(copySegmentTimelineEntry, st.elems)]

\* func copySegmentTemplate(st *SegmentTemplate) *SegmentTemplate
copySegmentTemplate(st) ==
    IF st = Nil THEN Nil
    ELSE NewPtr([Timescale              |-> copyobj_UInt64(st.val.Timescale),
                 Media                  |-> copyobj_String(st.val.Media),
                 Initialization         |-> copyobj_String(st.val.Initialization),
                 StartNumber            |-> copyobj_UInt64(st.val.StartNumber),
                 PresentationTimeOffset |-> copyobj_UInt64(st.val.PresentationTimeOffset),
                 SegmentTimelineS       |-> copySegmentTimelineS(st.val.SegmentTimelineS)],
                "wire")

\* the body of the loop of modifyRepresentations
modifyRepresentation(r) ==
    [AudioSamplingRate         |-> copyobj_String(r.AudioSamplingRate),
     Bandwidth                 |-> copyobj_UInt64(r.Bandwidth),
     Codecs                    |-> copyobj_String(r.Codecs),
     FrameRate                 |-> copyobj_String(r.FrameRate),
     Height                    |-> copyobj_UInt64(r.Height),
     ID                        |-> copyobj_String(r.ID),
     Width                     |-> copyobj_UInt64(r.Width),
     SegmentTemplate           |-> copySegmentTemplate(r.SegmentTemplate),
     SAR                       |-> copyobj_String(r.SAR),
     ContentProtections        |-> modifyContentProtections(r.ContentProtections),
     BaseURL                   |-> copyobj_String(r.BaseURL),
     MimeType                  |-> r.MimeType,
     AudioChannelConfiguration |-> modifyAudioChannelConfiguration(r.AudioChannelConfiguration)]

\* a modifyRepresentations that fills the slice from its end
modifyRepresentationsReversed(rs) ==
    [elems |-> IF rs = Nil THEN <<>> ELSE Reverse(MapSeq(modifyRepresentation, rs.elems))]

\* func modifyRepresentations(rs []Representation) []representationMarshal
modifyRepresentations(rs) ==
    [elems |-> IF rs = Nil THEN <<>> ELSE MapSeq(modifyRepresentation, rs.elems)]

\* the body of the loop of modifyAdaptationSets; a is a *AdaptationSet, and
\* a nil one makes the first field read, a.BitstreamSwitching, panic
modifyAdaptationSet(a) ==
    IF a = Nil THEN Panic
    ELSE NewPtr(
       [BitstreamSwitching      |-> copyobj_Bool(a.val.BitstreamSwitching),
        Codecs                  |-> copyobj_String(a.val.Codecs),
        Lang                    |-> copyobj_String(a.val.Lang),
        ID                      |-> copyobj_String(a.val.ID),
        ContentType             |-> a.val.ContentType,
        MimeType                |-> a.val.MimeType,
        SegmentAlignment        |-> a.val.SegmentAlignment,
        StartWithSAP            |-> copyobj_UInt64(a.val.StartWithSAP),
        SubsegmentAlignment     |-> a.val.SubsegmentAlignment,
        SubsegmentStartsWithSAP |-> copyobj_UInt64(a.val.SubsegmentStartsWithSAP),
        Representations         |-> modifyRepresentations(a.val.Representations),
        ContentProtections      |-> modifyContentProtections(a.val.ContentProtections),
        Role                    |-> modifyRole(a.val.Role),
        Width                   |-> copyobj_String(a.val.Width),
        Height                  |-> copyobj_String(a.val.Height),
        MaxWidth                |-> copyobj_String(a.val.MaxWidth),
        MaxHeight               |-> copyobj_String(a.val.MaxHeight),
        Par                     |-> copyobj_String(a.val.Par),
        FrameRate               |-> copyobj_String(a.val.FrameRate),
        SupplementalProperty    |-> modifySupplementalProperty(a.val.SupplementalProperty)],
       "wire")

\* the loop of modifyAdaptationSets meets a nil *AdaptationSet
NilAdaptationSet(as) == as # Nil /\ \E i \in 1..Len(as.elems) : as.elems[i] = Nil

\* func modifyAdaptationSets(as []*AdaptationSet) []*adaptationSetMarshal
modifyAdaptationSets(as) ==
    CASE as = Nil -> Nil
      [] NilAdaptationSet(as) -> Panic
      [] OTHER -> [elems |-> MapSeq(modifyAdaptationSet, as.elems)]

\* the body of the loop of modifyPeriod
modifyOnePeriod(p) ==
    [Duration       |-> copyobj_String(p.Duration),
     ID             |-> copyobj_String(p.ID),
     Start          |-> copyobj_String(p.Start),
     AdaptationSets |-> modifyAdaptationSets(p.AdaptationSets)]

\* func modifyPeriod(ps []Period) []periodMarshal
modifyPeriod(ps) ==
    CASE ps = Nil -> Nil
      [] \E i \in 1..Len(ps.elems) : NilAdaptationSet(ps.elems[i].AdaptationSets) -> Panic
      [] OTHER -> [elems |-> MapSeq(modifyOnePeriod, ps.elems)]

\* func modifyMPD(mpd *MPD) *mpdMarshal
modifyMPD(m) ==
    IF modifyPeriod(m.Period) = Panic THEN Panic
    ELSE [XMLNS                      |-> copyobj_String(m.XMLNS),
          MinimumUpdatePeriod        |-> copyobj_String(m.MinimumUpdatePeriod),
          AvailabilityStartTime      |-> copyobj_String(m.AvailabilityStartTime),
          MediaPresentationDuration  |-> copyobj_String(m.MediaPresentationDuration),
          MinBufferTime              |-> copyobj_String(m.MinBufferTime),
          SuggestedPresentationDelay |-> copyobj_String(m.SuggestedPresentationDelay),
          TimeShiftBufferDepth       |-> copyobj_String(m.TimeShiftBufferDepth),
          PublishTime                |-> copyobj_String(m.PublishTime),
          Type                       |-> copyobj_String(m.Type),
          Profiles                   |-> m.Profiles,
          XSI                        |-> copyobj_String(m.XSI),
          SCTE35                     |-> copyobj_String(m.SCTE35),
          XSISchemaLocation          |-> copyobj_String(m.XSISchemaLocation),
          Cenc                       |-> copyobj_String(m.Cenc),
          ID                         |-> copyobj_String(m.ID),
          BaseURL                    |-> copyobj_String(m.BaseURL),
          Period                     |-> modifyPeriod(m.Period)]
-----------------------------------------------------------------------------
(* Encode                                                                  *)

\* the expression `.</[A-Za-z]+>`, which takes any character before an end
\* tag for the end of an empty start tag
emptyElementREAnyEnd(s, i) ==
    IF /\ i + 4 <= Len(s)
       /\ s[i + 1] = "<" /\ s[i + 2] = "/"
       /\ IsLetters(s[i + 3])
       /\ s[i + 4] = ">"
    THEN 5 ELSE 0

\* var emptyElementRE = regexp.MustCompile(`></[A-Za-z]+>`)
\* how many tokens of s, from position i, the expression matches (0: none).
\* A run of letters is one token, so [A-Za-z]+ matches exactly one token.
emptyElementRE(s, i) ==
    IF /\ i + 4 <= Len(s)
       /\ s[i] = ">" /\ s[i + 1] = "<" /\ s[i + 2] = "/"
       /\ IsLetters(s[i + 3])
       /\ s[i + 4] = ">"
    THEN 5 ELSE 0

RECURSIVE Replaced(_, _)
\* position i starts a match that ReplaceAllString replaces: the matches are
\* taken leftmost first and do not overlap, and two candidate matches can
\* only overlap in the ">" that ends one and starts the next
Replaced(s, i) ==
    /\ emptyElementRE(s, i) > 0
    /\ ~(i > 4 /\ Replaced(s, i - 4))

\* emptyElementRE.ReplaceAllString(s, `/>`)
ReplaceAllString(s) ==
    LET piece(i) ==
            IF Replaced(s, i) THEN <<"/", ">">>
            ELSE IF \E j \in 1..4 : i - j >= 1 /\ Replaced(s, i - j) THEN <<>>
            ELSE <<s[i]>>
    IN Concat([i \in 1..Len(s) |-> piece(i)])

\* the successive results of x.ReadString('\n') until io.EOF: each line with
\* its newline, and what is left after the last newline (possibly empty)
ReadLines(x) ==
    LET nl == Positions(x, "\n")
    IN [k \in 1..(Len(nl) + 1) |->
          SubSeq(x, IF k = 1 THEN 1 ELSE nl[k - 1] + 1,
                    IF k <= Len(nl) THEN nl[k] ELSE Len(x))]

\* the loop of Encode over the lines: a non-empty line is rewritten and
\* written to res
CanonLines(ls) ==
    Concat([k \in 1..Len(ls) |-> IF ls[k] # <<>> THEN ReplaceAllString(ls[k]) ELSE <<>>])

\* res.WriteString(`<?xml version="1.0" encoding="UTF-8"?>`)
XMLDeclaration ==
    <<"<", "?", "xml", " ", "version", "=", "\"", "1", ".", "0", "\"", " ",
      "encoding", "=", "\"", "UTF", "-", "8", "\"", "?", ">">>

\* the self-closing pass and the framing of Encode, on the encoder's output x
Canonicalize(x, decl) ==
    decl \o <<"\n">> \o CanonLines(ReadLines(x)) \o <<"\n">>

\* the body of Encode after the projection xml, a pointer to a struct of
\* type t: the declaration, the encoder's output line by line with the
\* self-closing pass, the final newline; the bytes and the error returned,
\* or the panic of the projection
WriteDocument(xml, t, decl) ==
    IF xml = Panic THEN Panic
    ELSE [bytes |-> Canonicalize(xmlEncode(xml, t).x, decl), err |-> Nil]

\* func (m *MPD) Encode() ([]byte, error)
Encode(m) == WriteDocument(modifyMPD(m), "mpdMarshal", XMLDeclaration)
-----------------------------------------------------------------------------
(* encoding/xml, the tokenizer.  The buffer is cut at every "<" into tags  *)
(* (Decoder.rawToken); a tag runs to the next ">" (the inputs carry no raw *)
(* ">" inside an attribute value: EscapeText never writes one).  The tags  *)
(* are tabulated with their nesting, so that the walk of Decoder.unmarshal *)
(* can be followed element by element.                                     *)

SyntaxError(msg) == [msg |-> msg]

\* Decoder.name: the tokens of the name that starts at b[i], within i..hi
ReadName(b, i, hi) ==
    LET stops == {j \in i..hi : b[j] \in WhiteSpace \cup {"<", ">", "/", "=", "\"", "&",
                                                        "?", "'", ";", "#", "!"}}
    IN SubSeq(b, i, IF stops = {} THEN hi ELSE Min(stops) - 1)

\* the character an entity stands for (the tokens between & and ;), or
\* <<>> for one the decoder does not know
Entity(e) ==
    CASE e = <<"lt">> -> <<"<">>
      [] e = <<"gt">> -> <<">">>
      [] e = <<"amp">> -> <<"&">>
      [] e = <<"apos">> -> <<"'">>
      [] e = <<"quot">> -> <<"\"">>
      [] e = <<"#", "3", "4">> -> <<"\"">>
      [] e = <<"#", "3", "9">> -> <<"'">>
      [] e = <<"#", "x", "9">> -> <<"\t">>
      [] e = <<"#", "xA">> -> <<"\n">>
      [] OTHER -> <<>>

\* a Decoder.text that leaves the entities as they are written
UnescapeNone(s) == [text |-> s, ok |-> TRUE]

\* Decoder.text: the text s with its entities replaced; ok is false when an
\* "&" does not start a known entity
Unescape(s) ==
    LET amp     == Positions(s, "&")
        semi(a) == LET c == {j \in (a + 1)..Len(s) : s[j] = ";"}
                   IN IF c = {} THEN 0 ELSE Min(c)
        ent(a)  == IF semi(a) = 0 THEN <<>> ELSE Entity(SubSeq(s, a + 1, semi(a) - 1))
        piece(i) ==
            IF s[i] = "&" THEN ent(i)
            ELSE IF \E n \in 1..Len(amp) : amp[n] < i /\ i <= semi(amp[n]) THEN <<>>
            ELSE <<s[i]>>
    IN IF amp = <<>> THEN [text |-> s, ok |-> TRUE]
       ELSE [text |-> Concat([i \in 1..Len(s) |-> piece(i)]),
             ok   |-> \A n \in 1..Len(amp) : ent(amp[n]) # <<>>]

\* one attribute, from the text before its opening quote (left) and the
\* unescaped text between its quotes (val): name="value"; ok is false when
\* that is not what is written
ReadAttr(left, val) ==
    LET name == TrimSpace(SubSeq(left, 1, Len(left) - 1))
    IN [Name  |-> name,
        Value |-> val.text,
        ok    |-> /\ left # <<>> /\ left[Len(left)] = "="
                  /\ name # <<>>
                  /\ \A i \in 1..Len(name) : name[i] \notin WhiteSpace \cup {"=", "/"}
                  /\ val.ok]

\* the attributes written in b[lo..hi], the part of a tag after the name;
\* ok is false when what follows the last attribute is not white space
ReadAttrs(b, lo, hi) ==
    LET quotes == SelectSeq(Range(lo, hi), LAMBDA i : b[i] = "\"")
        n      == Len(quotes) \div 2
    IN [attrs |-> Tabulate([j \in 1..n |->
                     ReadAttr(TrimSpace(SubSeq(b, IF j = 1 THEN lo ELSE quotes[2 * j - 2] + 1,
                                               quotes[2 * j - 1] - 1)),
                              Unescape(SubSeq(b, quotes[2 * j - 1] + 1, quotes[2 * j] - 1)))],
                     n),
        ok    |-> /\ Len(quotes) = 2 * n
                  /\ TrimSpace(SubSeq(b, IF n = 0 THEN lo ELSE quotes[2 * n] + 1, hi)) = <<>>]

\* the tag b[p..q] of the given kind and name, with what ReadAttrs found
\* after its name (as): the tag is well formed (ok) when it is closed, has
\* a name and, unless it is a processing instruction or directive, nothing
\* but attributes after the name; textOk tells whether the character data
\* after it, up to lim, is well formed
Tag(b, p, q, lim, kind, name, as) ==
    [p |-> p, q |-> q, kind |-> kind, name |-> name,
     attrs |-> IF kind \in {"start", "empty"} THEN as.attrs ELSE <<>>,
     ok |-> /\ q # 0 /\ name # <<>>
            /\ kind = "pi" => b[q - 1] = "?" \/ b[p + 1] = "!"
            /\ kind # "pi" => as.ok /\ \A j \in 1..Len(as.attrs) : as.attrs[j].ok,
     textOk |-> q = 0 \/ Unescape(SubSeq(b, q + 1, lim)).ok]

\* Decoder.rawToken at the "<" of position p, when the next "<" (or the
\* end of b) comes after position lim: the tag runs to the first ">" (q, 0
\* when there is none); it is an end tag, a processing instruction or
\* directive, an empty-element tag <a/>, or a start tag
RawTag(b, p, lim) ==
    LET gt   == {j \in (p + 1)..lim : b[j] = ">"}
        q    == IF gt = {} THEN 0 ELSE Min(gt)
        e    == IF q = 0 THEN lim ELSE q - 1
        kind == IF p + 1 <= Len(b) /\ b[p + 1] = "/" THEN "end"
                ELSE IF p + 1 <= Len(b) /\ b[p + 1] \in {"?", "!"} THEN "pi"
                ELSE IF q > p + 1 /\ b[q - 1] = "/" THEN "empty"
                ELSE "start"
        from == IF kind \in {"end", "pi"} THEN p + 2 ELSE p + 1
        name == ReadName(b, from, e)
    IN Tag(b, p, q, lim, kind, name,
           ReadAttrs(b, from + Len(name), IF kind = "empty" THEN e - 1 ELSE e))

\* the value of encoding="..." in the XML declaration b[p..q]
\* (procInst("encoding", ...)), or <<>>
DeclaredEncoding(b, p, q) ==
    LET e == {j \in p..q : b[j] = "encoding"}
        i == IF e = {} THEN 0 ELSE Min(e)
        c == {j \in (i + 3)..q : b[j] = "\""}
    IN IF i = 0 \/ i + 2 > q \/ b[i + 1] # "=" \/ b[i + 2] # "\"" \/ c = {} THEN <<>>
       ELSE SubSeq(b, i + 3, Min(c) - 1)

\* the tags raw, each with the number of elements open before it (depth),
\* for a start tag the end tag that closes it (match, 0 if none) and for
\* an end tag the start tag it closes (opener, 0 if none)
NestTags(raw) ==
    LET m   == Len(raw)
        dep == Tabulate([k \in 1..m |->
                   Cardinality({j \in 1..(k - 1) : raw[j].kind = "start"})
                   - Cardinality({j \in 1..(k - 1) : raw[j].kind = "end"})], m)
        match(k) ==
            LET c == {j \in (k + 1)..m : raw[j].kind = "end" /\ dep[j] = dep[k] + 1}
            IN IF raw[k].kind # "start" \/ c = {} THEN 0 ELSE Min(c)
        opener(k) ==
            LET c == {j \in 1..(k - 1) : raw[j].kind = "start" /\ dep[j] = dep[k] - 1}
            IN IF raw[k].kind # "end" \/ c = {} THEN 0 ELSE Max(c)
    IN Tabulate([k \in 1..m |->
           [p |-> raw[k].p, q |-> raw[k].q, kind |-> raw[k].kind,
            name |-> raw[k].name, attrs |-> raw[k].attrs, ok |-> raw[k].ok,
            textOk |-> raw[k].textOk, depth |-> dep[k],
            match |-> match(k), opener |-> opener(k)]], m)

\* the tokens the decoder can read off b, whose tags are tags.  root: the
\* first start tag.  err: the error met before the root element is
\* entered (no root at all, an encoding other than UTF-8 declared with no
\* CharsetReader set, a malformed tag).  errAt: the first tag inside the
\* root element at which the tokenizer fails (0: none; one past the last
\* tag: the input ends inside the root).
Document(b, tags) ==
    LET m      == Len(tags)
        starts == SelectSeq(Indices(tags), LAMBDA k : tags[k].kind \in {"start", "empty"})
        root   == IF starts = <<>> THEN 0 ELSE starts[1]
        bad(k) == \/ ~tags[k].ok
                  \/ k > 1 /\ ~tags[k - 1].textOk
                  \/ tags[k].kind = "end"
                     /\ (tags[k].opener = 0 \/ tags[tags[k].opener].name # tags[k].name)
        last   == IF root = 0 THEN 0
                  ELSE IF tags[root].kind = "empty" THEN root ELSE tags[root].match
        B      == {k \in (root + 1)..(IF last = 0 THEN m ELSE last) : bad(k)}
    IN [b |-> b, tags |-> tags, root |-> root,
        err |-> CASE root = 0 -> SyntaxError("EOF")
                  [] \E k \in 1..root : bad(k) -> SyntaxError("XML syntax error")
                  [] /\ root # 1 /\ tags[1].kind = "pi" /\ tags[1].name = <<"xml">>
                     /\ DeclaredEncoding(b, tags[1].p, tags[1].q)
                            \notin {<<>>, <<"UTF", "-", "8">>, <<"utf", "-", "8">>} ->
                        SyntaxError("encoding declared but Decoder.CharsetReader is nil")
                  [] OTHER -> Nil,
        errAt |-> IF root = 0 THEN 0
                  ELSE IF B # {} THEN Min(B)
                  ELSE IF last = 0 THEN m + 1 ELSE 0]

\* the buffer b cut at every "<" into tags
ReadDocument(b) ==
    LET lt == Positions(b, "<")
    IN Document(b, NestTags(Tabulate([k \in 1..Len(lt) |->
                       RawTag(b, lt[k], IF k < Len(lt) THEN lt[k + 1] - 1 ELSE Len(b))],
                       Len(lt))))

\* the element of start tag k was read to its end tag
Complete(D, k) ==
    \/ D.tags[k].kind = "empty"
    \/ D.tags[k].match # 0 /\ (D.errAt = 0 \/ D.tags[k].match < D.errAt)

\* the child elements of element k that the decoder gets to see, in order
Kids(D, k) ==
    LET t    == D.tags[k]
        m    == Len(D.tags)
        a    == IF t.match = 0 THEN m + 1 ELSE t.match
        stop == IF D.errAt # 0 /\ D.errAt < a THEN D.errAt ELSE a
    IN IF t.kind = "empty" THEN <<>>
       ELSE SelectSeq(Range(k + 1, stop - 1),
                      LAMBDA c : /\ D.tags[c].kind \in {"start", "empty"}
                                 /\ D.tags[c].depth = t.depth + 1)

\* the character data directly inside the complete element k
Text(D, k) ==
    LET t      == D.tags[k]
        ks     == Kids(D, k)
        n      == Len(ks)
        end(c) == IF D.tags[c].kind = "empty" THEN D.tags[c].q
                  ELSE D.tags[D.tags[c].match].q
        piece(i) == SubSeq(D.b, IF i = 0 THEN t.q + 1 ELSE end(ks[i]) + 1,
                                IF i = n THEN D.tags[t.match].p - 1
                                ELSE D.tags[ks[i + 1]].p - 1)
    IN IF t.kind = "empty" THEN <<>>
       ELSE Unescape(Concat([i \in 1..(n + 1) |-> piece(i - 1)])).text

\* the error the tokenizer reports inside the root element
TokenError(D) ==
    IF D.errAt > Len(D.tags) THEN SyntaxError("unexpected EOF")
    ELSE SyntaxError("XML syntax error")

-----------------------------------------------------------------------------
(* encoding/xml, unmarshalling: the elements of a document into a struct   *)
(* value.  Every operator returns [v |-> the value left in place, err |->  *)
(* the error]; what was stored before an error stays stored.               *)

\* a Local that keeps the prefix: the name as it is written
LocalWritten(name) == name

\* xml.Name.Local: the part of a name after its first colon (the part before
\* it is the name space prefix)
Local(name) ==
    LET c == Positions(name, ":")
    IN IF c = <<>> \/ c[1] < 2 \/ c[1] >= Len(name) THEN name
       ELSE SubSeq(name, c[1] + 1, Len(name))

\* the zero value of a field of the given kind
ZeroField(kind) ==
    CASE kind = "string" -> <<>>
      [] kind = "uint" -> <<>>
      [] kind = "cuint" -> ConditionalUint
      [] OTHER -> Nil

\* the index of the field named g
FieldIndex(fields, g) == CHOOSE i \in 1..Len(fields) : fields[i].go = g

\* the zero value of a struct with the given fields
ZeroStruct(fs) ==
    [g \in {fs[i].go : i \in 1..Len(fs)} |-> ZeroField(fs[FieldIndex(fs, g)].kind)]

\* the zero value of struct type t, which new(t) points at
ZeroValue(t) == ZeroStruct(TypeInfo(t).fields)

\* store x through the pointer p, allocating the cell when p is nil
SetPtr(p, x) == IF p = Nil THEN NewPtr(x, "doc") ELSE [p EXCEPT !.val = x]

\* the end of copyValue for the numeric and boolean kinds: what strconv
\* made of the text (p) is stored, and a text that does not parse leaves
\* the (already allocated) destination as it was
setValue(val, kind, p) ==
    LET zero == IF kind \in {"puint", "uint"} THEN <<>>
                ELSE IF kind = "pint" THEN [neg |-> FALSE, mag |-> <<>>]
                ELSE FALSE
    IN CASE kind = "uint" -> [v |-> IF p.err = Nil THEN p.n ELSE val, err |-> p.err]
         [] p.err = Nil -> [v |-> SetPtr(val, p.n), err |-> Nil]
         [] OTHER -> [v |-> SetPtr(val, IF val = Nil THEN zero ELSE val.val), err |-> p.err]

\* copyValue(dst, src) for the basic kinds: a string is stored as it is; an
\* empty text stores the zero number; otherwise the trimmed text is parsed
copyValue(val, kind, text) ==
    CASE kind = "string" -> [v |-> text, err |-> Nil]
      [] kind = "pstring" -> [v |-> SetPtr(val, text), err |-> Nil]
      [] text = <<>> ->
            setValue(val, kind,
                     [err |-> Nil,
                      n   |-> CASE kind \in {"puint", "uint"} -> <<>>
                                [] kind = "pint" -> [neg |-> FALSE, mag |-> <<>>]
                                [] kind = "pbool" -> FALSE])
      [] kind \in {"puint", "uint"} -> setValue(val, kind, ParseUint(TrimSpace(text)))
      [] kind = "pint" -> setValue(val, kind, ParseInt(TrimSpace(text)))
      [] kind = "pbool" ->
            setValue(val, kind, [err |-> ParseBool(TrimSpace(text)).err,
                                 n   |-> ParseBool(TrimSpace(text)).b])

\* Decoder.unmarshalAttr: attribute a into the field f, which holds val.
\* ConditionalUint implements xml.UnmarshalerAttr and is handed the attribute.
unmarshalAttr(val, f, a) ==
    IF f.kind = "cuint"
    THEN UnmarshalXMLAttr(val, [Name |-> Local(a.Name), Value |-> a.Value])
    ELSE copyValue(val, f.kind, a.Value)

\* the first field of the given mode that the local name selects: an
\* attribute or element of that name, or an element below a parent of that
\* name ("parent>name"); 0 when there is none
FindField(fields, mode, local) ==
    LET c == SelectSeq(Indices(fields), LAMBDA i :
                 /\ fields[i].mode = mode
                 /\ \/ fields[i].parents = <<>> /\ fields[i].name = local
                    \/ fields[i].parents # <<>> /\ fields[i].parents = local)
    IN IF c = <<>> THEN 0 ELSE c[1]

\* the first element field tagged "parent>local"; 0 when there is none
FindBelow(fields, parent, local) ==
    LET c == SelectSeq(Indices(fields), LAMBDA i :
                 /\ fields[i].mode = "elem"
                 /\ fields[i].parents = parent /\ fields[i].name = local)
    IN IF c = <<>> THEN 0 ELSE c[1]

RECURSIVE FoldAttr(_, _, _, _, _)
\* the attributes A[js[n]], A[js[n+1]], ... stored one after the other into
\* the same field f, which holds val
FoldAttr(val, f, A, js, n) ==
    IF n > Len(js) THEN val
    ELSE FoldAttr(unmarshalAttr(val, f, A[js[n]]).v, f, A, js, n + 1)

\* the attribute loop of Decoder.unmarshal over the attributes A, of which
\* A[j] goes to field F[j] (0: none) and fails with E[j] (Nil: it does
\* not): each attribute in turn, in the order written, up to the first one
\* that fails
storeAttrs(A, fields, v, F, E) ==
    LET errs == SelectSeq(Indices(A), LAMBDA j : E[j] # Nil)
        last == IF errs = <<>> THEN Len(A) ELSE errs[1]
    IN [v   |-> [g \in DOMAIN v |->
                   IF fields[FieldIndex(fields, g)].mode # "attr" THEN v[g]
                   ELSE FoldAttr(v[g], fields[FieldIndex(fields, g)], A,
                                 SelectSeq(Range(1, last),
                                           LAMBDA j : F[j] = FieldIndex(fields, g)), 1)],
        err |-> IF errs = <<>> THEN Nil ELSE E[errs[1]]]

\* the error of each attribute of A, which goes to field F[j].  Whether an
\* attribute fails depends on its text only, not on what the field holds.
attrErrors(A, fields, v, F) ==
    storeAttrs(A, fields, v, F,
               Tabulate([j \in 1..Len(A) |->
                   IF F[j] = 0 THEN Nil
                   ELSE unmarshalAttr(ZeroField(fields[F[j]].kind), fields[F[j]], A[j]).err],
                   Len(A)))

\* the attribute loop of Decoder.unmarshal: every attribute goes into the
\* field of its local name
unmarshalAttrs(A, fields, v) ==
    IF A = <<>> THEN [v |-> v, err |-> Nil]
    ELSE attrErrors(A, fields, v,
                    Tabulate([j \in 1..Len(A) |->
                                 FindField(fields, "attr", Local(A[j].Name))], Len(A)))

\* the elements the content loop of Decoder.unmarshal visits below element
\* k, in order, each with the field it goes to.  A child named by a plain
\* field goes to it; below a child that is the parent of "parent>name"
\* fields (unmarshalPath) each grandchild goes to the field it names; field
\* 0 is an element that is skipped to its end (Decoder.Skip).
ContentItems(D, k, fields) ==
    LET ks == Kids(D, k)
        below(c, f) ==
            LET gs == Kids(D, c)
            IN Tabulate([i \in 1..Len(gs) |->
                   [tag |-> gs[i],
                    field |-> FindBelow(fields, f.parents, Local(D.tags[gs[i]].name))]],
                   Len(gs))
               \o <<[tag |-> c, field |-> 0]>>
        of(c) ==
            LET i == FindField(fields, "elem", Local(D.tags[c].name))
            IN IF i = 0 THEN <<[tag |-> c, field |-> 0]>>
               ELSE IF fields[i].parents = <<>> THEN <<[tag |-> c, field |-> i]>>
               ELSE below(c, fields[i])
    IN Concat([i \in 1..Len(ks) |-> of(ks[i])])

RECURSIVE unmarshal(_, _, _, _)
RECURSIVE unmarshalStruct(_, _, _, _)
RECURSIVE unmarshalContent(_, _, _, _, _)
RECURSIVE storeContent(_, _, _, _, _, _)
RECURSIVE FoldStruct(_, _, _, _, _, _, _)

\* the elements items[js[n]], items[js[n+1]], ... stored one after the other
\* through the same struct pointer field f, which holds val: the pointer is
\* allocated when nil and the element is read into what it points at
FoldStruct(D, val, f, items, R, js, n) ==
    IF n > Len(js) THEN val
    ELSE FoldStruct(D,
                    SetPtr(val, IF val = Nil THEN R[js[n]].v
                                ELSE unmarshal(D, items[js[n]].tag, f.type, val.val).v),
                    f, items, R, js, n + 1)

\* the character data of the element, copied into the chardata field after
\* the content loop
saveData(fields, v, text) ==
    [g \in DOMAIN v |->
        IF fields[FieldIndex(fields, g)].mode = "chardata" THEN SetPtr(v[g], text) ELSE v[g]]

\* the content loop of Decoder.unmarshal for element k, whose attributes
\* left a.v, given what each item yields when read into a fresh value (R):
\* each item in turn goes into its field, up to the first one that fails.
\* A slice grows by one entry per element and shrinks back when the entry
\* fails; a struct pointer is allocated when nil; a string pointer is
\* allocated and receives the character data of the element.
storeContent(D, k, fields, a, items, R) ==
    LET errs == SelectSeq(Indices(items), LAMBDA j : R[j].err # Nil)
        last == IF errs = <<>> THEN Len(items) ELSE errs[1]
        value(i) ==
            LET f     == fields[i]
                js    == SelectSeq(Range(1, last), LAMBDA j : items[j].field = i)
                good  == SelectSeq(js, LAMBDA j : R[j].err = Nil)
                prior == IF a.v[f.go] = Nil THEN <<>> ELSE a.v[f.go].elems
            IN CASE js = <<>> -> a.v[f.go]
                 [] f.kind = "slice" ->
                       [elems |-> prior \o Tabulate([x \in 1..Len(good) |-> R[good[x]].v],
                                                    Len(good))]
                 [] f.kind = "pslice" ->
                       [elems |-> prior \o Tabulate([x \in 1..Len(good) |->
                                                        NewPtr(R[good[x]].v, "doc")],
                                                    Len(good))]
                 [] f.kind = "pstruct" -> FoldStruct(D, a.v[f.go], f, items, R, js, 1)
                 [] f.kind = "pstring" ->
                       IF good # <<>> THEN SetPtr(a.v[f.go], R[good[Len(good)]].v)
                       ELSE SetPtr(a.v[f.go], IF a.v[f.go] = Nil THEN <<>> ELSE a.v[f.go].val)
        c == IF items = <<>> THEN a.v
             ELSE [g \in DOMAIN a.v |->
                     IF fields[FieldIndex(fields, g)].mode = "elem"
                     THEN value(FieldIndex(fields, g)) ELSE a.v[g]]
    IN CASE errs # <<>> -> [v |-> c, err |-> R[errs[1]].err]
         [] ~Complete(D, k) -> [v |-> c, err |-> TokenError(D)]
         [] OTHER -> [v |-> saveData(fields, c, Text(D, k)), err |-> Nil]

\* Decoder.unmarshal after the attribute loop, which returned a: the items
\* of the content are read, each into a fresh value of its field's type --
\* a skipped element to its end, a string from its character data, a
\* struct by Decoder.unmarshal
unmarshalContent(D, k, fields, a, items) ==
    IF a.err # Nil THEN a
    ELSE storeContent(D, k, fields, a, items,
             Tabulate([j \in 1..Len(items) |->
                 CASE items[j].field = 0 \/ fields[items[j].field].kind = "pstring" ->
                         [v   |-> IF items[j].field # 0 /\ Complete(D, items[j].tag)
                                  THEN Text(D, items[j].tag) ELSE <<>>,
                          err |-> IF Complete(D, items[j].tag) THEN Nil ELSE TokenError(D)]
                   [] OTHER -> unmarshal(D, items[j].tag, fields[items[j].field].type,
                                         ZeroValue(fields[items[j].field].type))],
                 Len(items)))

\* Decoder.unmarshal of the element of start tag k into the struct v whose
\* type has the given typeInfo: the name check of the XMLName field, the
\* attributes, the content, the character data
unmarshalStruct(D, k, info, v) ==
    IF info.XMLName # <<>> /\ info.XMLName # Local(D.tags[k].name)
    THEN [v |-> v, err |-> [msg |-> "expected element type <MPD> but have another",
                            have |-> Local(D.tags[k].name)]]
    ELSE unmarshalContent(D, k, info.fields,
                          unmarshalAttrs(D.tags[k].attrs, info.fields, v),
                          ContentItems(D, k, info.fields))

\* Decoder.unmarshal of the element of start tag k into the struct v of type t
unmarshal(D, k, t, v) == unmarshalStruct(D, k, TypeInfo(t), v)

\* Decoder.Decode(m) on the tokens D: the first start tag is looked for,
\* and the element it starts is read into what m points at
DecodeElement(D, m, t) ==
    IF D.err # Nil THEN [v |-> m, err |-> D.err]
    ELSE unmarshal(D, D.root, t, m)

\* xml.Unmarshal(b, m) for a pointer m to a struct of type t: what m points
\* at afterwards and the error returned
xmlUnmarshal(b, m, t) == DecodeElement(ReadDocument(b), m, t)

\* func (m *MPD) Decode(b []byte) error
Decode(m, b) == xmlUnmarshal(b, m, "MPD")
-----------------------------------------------------------------------------
(* The src/mpd.go snapshot: one optional Period, the projection done by   *)
(* modifyXMLStuct, which shares the pointers of the document instead of    *)
(* copying what they point at.                                             *)

\* the body of the ContentProtections loop of modifyXMLStuct
OldContentProtection(cp) ==
    [CencDefaultKID |-> cp.CencDefaultKID,
     SchemeIDURI    |-> cp.SchemeIDURI,
     Value          |-> cp.Value,
     Cenc           |-> cp.Cenc,
     Pssh           |-> IF cp.Pssh = Nil THEN Nil
                        ELSE NewPtr([Cenc  |-> cp.Pssh.val.Cenc,
                                     Value |-> cp.Pssh.val.Value], "wire")]

\* what the loops of modifyXMLStuct leave in a slice that starts nil and is
\* appended to once per entry of the source slice, ys being what is appended
OldAppended(ys) == IF ys = <<>> THEN Nil ELSE [elems |-> ys]

\* the body of the Representations loop of modifyXMLStuct
OldRepresentation(r) ==
    [AudioSamplingRate  |-> r.AudioSamplingRate,
     Bandwidth          |-> r.Bandwidth,
     Codecs             |-> r.Codecs,
     FrameRate          |-> r.FrameRate,
     Height             |-> r.Height,
     ID                 |-> r.ID,
     Width              |-> r.Width,
     SegmentTemplate    |-> r.SegmentTemplate,
     SAR                |-> r.SAR,
     ContentProtections |-> OldAppended(MapSeq(OldContentProtection, Elems(r.ContentProtections)))]

\* the body of the AdaptationSets loop of modifyXMLStuct; as is a
\* *AdaptationSet, and a nil one makes as.BitstreamSwitching panic
OldAdaptationSet(as) ==
    IF as = Nil THEN Panic
    ELSE NewPtr([BitstreamSwitching      |-> as.val.BitstreamSwitching,
                 Codecs                  |-> as.val.Codecs,
                 Lang                    |-> as.val.Lang,
                 MimeType                |-> as.val.MimeType,
                 SegmentAlignment        |-> as.val.SegmentAlignment,
                 StartWithSAP            |-> as.val.StartWithSAP,
                 SubsegmentAlignment     |-> as.val.SubsegmentAlignment,
                 SubsegmentStartsWithSAP |-> as.val.SubsegmentStartsWithSAP,
                 Representations         |-> OldAppended(MapSeq(OldRepresentation, Elems(as.val.Representations)))],
                "wire")

\* func modifyXMLStuct(mpd *MPD) *mpdMarshal
modifyXMLStuct(m) ==
    IF m.Period # Nil /\ NilAdaptationSet(m.Period.val.AdaptationSets) THEN Panic
    ELSE [XMLNS                      |-> m.XMLNS,
          MinimumUpdatePeriod        |-> m.MinimumUpdatePeriod,
          AvailabilityStartTime      |-> m.AvailabilityStartTime,
          MediaPresentationDuration  |-> m.MediaPresentationDuration,
          MinBufferTime              |-> m.MinBufferTime,
          SuggestedPresentationDelay |-> m.SuggestedPresentationDelay,
          TimeShiftBufferDepth       |-> m.TimeShiftBufferDepth,
          PublishTime                |-> m.PublishTime,
          Type                       |-> m.Type,
          Profiles                   |-> m.Profiles,
          XSI                        |-> m.XSI,
          SCTE35                     |-> m.SCTE35,
          XSISchemaLocation          |-> m.XSISchemaLocation,
          ID                         |-> m.ID,
          Period                     |->
              NewPtr(IF m.Period = Nil
                     THEN [Start |-> Nil, ID |-> Nil, Duration |-> Nil,
                           AdaptationSets |-> Nil]
                     ELSE [Start          |-> m.Period.val.Start,
                           ID             |-> m.Period.val.ID,
                           Duration       |-> m.Period.val.Duration,
                           AdaptationSets |->
                               OldAppended(MapSeq(OldAdaptationSet, Elems(m.Period.val.AdaptationSets)))],
                     "wire")]

\* src/mpd.go: res.WriteString(`<?xml version="1.0" encoding="utf-8"?>`)
OldXMLDeclaration ==
    <<"<", "?", "xml", " ", "version", "=", "\"", "1", ".", "0", "\"", " ",
      "encoding", "=", "\"", "utf", "-", "8", "\"", "?", ">">>

\* src/mpd.go: func (m *MPD) Encode() ([]byte, error)
OldEncode(m) == WriteDocument(modifyXMLStuct(m), "old.mpdMarshal", OldXMLDeclaration)

\* src/mpd.go: func (m *MPD) Decode(b []byte) error
OldDecode(m, b) == xmlUnmarshal(b, m, "old.MPD")

-----------------------------------------------------------------------------
(* The values callers put into documents.                                  *)

\* "urn:mpeg:dash:schema:mpd:2011"
DashNS == <<"urn", ":", "mpeg", ":", "dash", ":", "schema", ":", "mpd", ":", "2", "0", "1", "1">>

\* "urn:mpeg:cenc:2013"
CencNS == <<"urn", ":", "mpeg", ":", "cenc", ":", "2", "0", "1", "3">>

\* a string the caller sets
Str(s) == NewPtr(s, "doc")

\* a number the caller sets
Num(n) == NewPtr(Uint64(n), "doc")

\* the texts handed to a union attribute: unsigned integers (the last one
\* is 1<<64 - 1), boolean literals in their spellings, and others (the last
\* one is 1<<64)
AttrTexts ==
    { <<"0">>, <<"1">>, <<"7">>, <<"0", "7">>, MaxUint64Digits,
      <<"true">>, <<"false">>, <<"True">>, <<"t">>, <<"F">>,
      <<"maybe">>, <<>>, <<"+", "1">>, <<"-", "1">>, <<" ", "1">>,
      <<"1","8","4","4","6","7","4","4","0","7","3","7","0","9","5","5","1","6","1","6">> }

\* the attribute name a union attribute is decoded from
AlignmentNames == { <<"segmentAlignment">>, <<"subsegmentAlignment">> }

\* a Period the caller appends
NewPeriod(kind) ==
    IF kind = "zero" THEN ZeroValue("Period")
    ELSE [ZeroValue("Period") EXCEPT
            !.ID = Str(<<"p">>), !.Start = Str(<<"PT", "0", "S">>),
            !.Duration = Str(<<"PT", "2", "S">>)]

\* a descriptor (Role, SupplementalProperty, AudioChannelConfiguration)
NewDescriptor(scheme, value) == NewPtr([SchemeIdUri |-> Str(scheme), Value |-> Str(value)], "doc")

\* a *AdaptationSet the caller appends: nil, the zero struct, or one with
\* fields set, some of them to falsy values (0, false, the empty string)
NewAdaptationSet(kind) ==
    CASE kind = "nil" -> Nil
      [] kind = "zero" -> NewPtr(ZeroValue("AdaptationSet"), "doc")
      [] kind = "set" ->
            NewPtr([ZeroValue("AdaptationSet") EXCEPT
                      !.MimeType = <<"video", "/", "mp", "4">>,
                      !.SegmentAlignment = [u |-> Num(0), b |-> Nil],
                      !.SubsegmentAlignment = [u |-> Nil, b |-> NewPtr(FALSE, "doc")],
                      !.StartWithSAP = Num(0),
                      !.SubsegmentStartsWithSAP = Num(1),
                      !.BitstreamSwitching = NewPtr(FALSE, "doc"),
                      !.Lang = Str(<<>>), !.ID = Str(<<"1">>),
                      !.ContentType = <<>>,
                      !.Width = Str(<<>>),
                      !.MaxWidth = Str(<<"6", "4", "0">>),
                      !.FrameRate = Str(<<"3", "0", "/", "1">>),
                      !.Role = NewDescriptor(<<"urn", ":", "role">>, <<"main">>),
                      !.SupplementalProperty = NewDescriptor(<<"urn", ":", "prop">>, <<>>)],
                   "doc")

\* a Representation the caller appends: the zero struct, or one with fields
\* set, some of them to falsy values
NewRepresentation(kind) ==
    CASE kind = "zero" -> ZeroValue("Representation")
      [] kind = "set" ->
            [ZeroValue("Representation") EXCEPT
               !.ID = Str(<<"1">>), !.Bandwidth = Num(500000), !.Width = Num(0),
               !.Codecs = Str(<<>>), !.SAR = Str(<<"1", ":", "1">>),
               !.MimeType = <<>>,
               !.BaseURL = Str(<<"a", "&", "b", "/">>),
               !.AudioChannelConfiguration = NewDescriptor(<<"urn", ":", "acc">>, <<"2">>)]

\* a DRMDescriptor the caller appends: without Pssh, with an empty Pssh,
\* or with everything set
NewDRMDescriptor(kind) ==
    CASE kind = "zero" -> ZeroValue("DRMDescriptor")
      [] kind = "emptyPssh" ->
            [ZeroValue("DRMDescriptor") EXCEPT
               !.SchemeIDURI = Str(<<"urn", ":", "uuid">>),
               !.Pssh = NewPtr(ZeroValue("Pssh"), "doc")]
      [] kind = "cenc" ->
            [ZeroValue("DRMDescriptor") EXCEPT
               !.SchemeIDURI = Str(<<"urn", ":", "mpeg", ":", "dash", ":", "mp", "4",
                                     "protection", ":", "2", "0", "1", "1">>),
               !.Value = Str(<<"cenc">>),
               !.CencDefaultKID = Str(<<"ab", "-", "1", "2">>),
               !.Cenc = Str(CencNS),
               !.Pssh = NewPtr([Cenc |-> Str(CencNS), Value |-> Str(<<"AAAA", "=">>)], "doc")]

\* a *SegmentTemplate the caller sets: without timeline, with an empty one,
\* or with two entries
NewSegmentTemplate(kind) ==
    CASE kind = "zero" -> NewPtr(ZeroValue("SegmentTemplate"), "doc")
      [] kind = "emptyTimeline" ->
            NewPtr([ZeroValue("SegmentTemplate") EXCEPT
                      !.Timescale = Num(0), !.SegmentTimelineS = [elems |-> <<>>]], "doc")
      [] kind = "timeline" ->
            NewPtr([ZeroValue("SegmentTemplate") EXCEPT
                      !.Timescale = Num(1000),
                      !.Media = Str(<<"$", "Number", "$", ".", "m", "4", "s">>),
                      !.StartNumber = Num(1),
                      !.SegmentTimelineS =
                          [elems |-> << [T |-> Num(0), D |-> Uint64(5),
                                         R |-> NewPtr(Int64(0 - 1), "doc")],
                                        [T |-> Nil, D |-> Uint64(0), R |-> Nil] >>]], "doc")

\* append(s, x) for a slice s that may be nil
AppendTo(s, x) == [elems |-> (IF s = Nil THEN <<>> ELSE s.elems) \o <<x>>]

\* the number of entries of a slice that may be nil
Count(s) == IF s = Nil THEN 0 ELSE Len(s.elems)

\* src/mpd.go: a *AdaptationSet the caller appends
OldNewAdaptationSet(kind) ==
    CASE kind = "nil" -> Nil
      [] kind = "zero" -> NewPtr(ZeroValue("old.AdaptationSet"), "doc")
      [] kind = "video" ->
            NewPtr([ZeroValue("old.AdaptationSet") EXCEPT
                      !.MimeType = <<"video", "/", "mp", "4">>,
                      !.SegmentAlignment = [u |-> Nil, b |-> NewPtr(TRUE, "doc")],
                      !.StartWithSAP = Num(1),
                      !.Lang = Str(<<"en">>)], "doc")

\* src/mpd.go: a Representation the caller appends
OldNewRepresentation(kind) ==
    CASE kind = "zero" -> ZeroValue("old.Representation")
      [] kind = "video" ->
            [ZeroValue("old.Representation") EXCEPT
               !.ID = Str(<<"1">>), !.Bandwidth = Num(500000), !.Width = Num(0),
               !.Codecs = Str(<<"avc", "1">>)]

-----------------------------------------------------------------------------
(* The state machine.  A caller builds a document field by field, encodes  *)
(* it, decodes what was written into a fresh document and encodes again.   *)

NoResult ==
    [op |-> "none", of |-> Nil, ofSrc |-> "", bytes |-> <<>>, err |-> Nil,
     panicked |-> FALSE]

\* what an Encode of the document m (which was built or decoded: s) returned
EncodeResult(m, s, e) ==
    [op |-> "Encode", of |-> m, ofSrc |-> s,
     bytes |-> IF e = Panic THEN <<>> ELSE e.bytes,
     err |-> IF e = Panic THEN Nil ELSE e.err,
     panicked |-> e = Panic]

\* what a Decode of the bytes of the Encode result prev returned
DecodeResult(prev, r) ==
    [op |-> "Decode", of |-> prev.of, ofSrc |-> prev.ofSrc, bytes |-> prev.bytes,
     err |-> r.err, panicked |-> FALSE]

NoBuffer == [bytes |-> <<>>, wellFormed |-> FALSE]

NoCUResult ==
    [op |-> "none", text |-> <<>>, name |-> <<>>, before |-> ConditionalUint,
     attr |-> NoAttr, bytes |-> <<>>, err |-> Nil]

\* the pattern of `var emptyElementRE = regexp.MustCompile(...)`
EmptyElementPattern ==
    <<">", "<", "/", "[", "A", "-", "Za", "-", "z", "]", "+", ">">>

\* the package-level variables of the package
PackageVars == [emptyElementRE |-> EmptyElementPattern]

\* the Document Model instances that callers hold side by side
Instances == 1..2

\* no call has returned
NoReturn ==
    [op |-> "none", of |-> Nil, after |-> Nil, bytes |-> <<>>, err |-> Nil,
     panicked |-> FALSE]

\* m := new(MPD), and no call on it: m is the document, pc the place of the
\* call that runs on it, n the number of calls begun, b the argument of a
\* running Decode, xml and x the locals of a running Encode, ret what the
\* last call returned (of: the document when it began, after: when it
\* returned) and prev what the Encode before that returned
NewInstance ==
    [m |-> ZeroValue("MPD"), pc |-> "idle", n |-> 0, b |-> <<>>, xml |-> Nil,
     x |-> <<>>, ret |-> NoReturn, prev |-> NoReturn]

Init ==
    /\ cu = ConditionalUint
    /\ cuRes = NoCUResult
    /\ mpd = ZeroValue("MPD")
    /\ src = "new"
    /\ nodes = 0
    /\ buf = NoBuffer
    /\ res = NoResult
    /\ old = ZeroValue("old.MPD")
    /\ oldRes = NoResult
    /\ pkg = PackageVars
    /\ calls = [i \in Instances |-> NewInstance]

\* the caller touches the document: what was read or written before is stale
Built(m) ==
    /\ mpd' = m
    /\ src' = "built"
    /\ nodes' = nodes + 1
    /\ res' = NoResult
    /\ buf' = NoBuffer
    /\ UNCHANGED <<cu, cuRes, old, oldRes, pkg, calls>>

CanBuild == src # "decoded" /\ nodes < MaxNodes

\* m.Profiles = ..., m.XMLNS = &..., m.Type = &..., m.BaseURL = &...
SetRoot ==
    /\ CanBuild
    /\ mpd.XMLNS = Nil
    /\ Built([mpd EXCEPT !.XMLNS = Str(DashNS), !.Type = Str(<<"static">>),
                         !.Profiles = <<"urn", ":", "profile">>,
                         !.Cenc = Str(CencNS), !.BaseURL = Str(<<>>),
                         !.MinBufferTime = Str(<<"PT", "2", "S">>)])

\* m.Period = append(m.Period, Period{...})
AddPeriod ==
    /\ CanBuild
    /\ \E kind \in {"zero", "full"} :
          Built([mpd EXCEPT !.Period = AppendTo(mpd.Period, NewPeriod(kind))])

\* the index of the last Period, 0 when there is none
LastP(m) == Count(m.Period)

\* p.AdaptationSets = append(p.AdaptationSets, &AdaptationSet{...}) on the
\* last Period
AddAdaptationSet ==
    /\ CanBuild
    /\ LastP(mpd) > 0
    /\ \E kind \in {"nil", "zero", "set"} :
          LET p == LastP(mpd)
          IN Built([mpd EXCEPT !.Period.elems[p].AdaptationSets =
                        AppendTo(mpd.Period.elems[p].AdaptationSets,
                                 NewAdaptationSet(kind))])

\* the index of the last AdaptationSet of the last Period, 0 when there is
\* none or when it is a nil pointer
LastA(m) ==
    IF LastP(m) = 0 THEN 0
    ELSE LET sets == m.Period.elems[LastP(m)].AdaptationSets
         IN IF Count(sets) = 0 \/ sets.elems[Count(sets)] = Nil THEN 0 ELSE Count(sets)

\* as.Representations = append(as.Representations, Representation{...})
AddRepresentation ==
    /\ CanBuild
    /\ LastA(mpd) > 0
    /\ \E kind \in {"zero", "set"} :
          LET p == LastP(mpd)
              a == LastA(mpd)
              as == mpd.Period.elems[p].AdaptationSets.elems[a].val
          IN Built([mpd EXCEPT !.Period.elems[p].AdaptationSets.elems[a].val.Representations =
                        AppendTo(as.Representations, NewRepresentation(kind))])

\* the index of the last Representation of the last AdaptationSet
LastR(m) ==
    IF LastA(m) = 0 THEN 0
    ELSE Count(m.Period.elems[LastP(m)].AdaptationSets.elems[LastA(m)].val.Representations)

\* x.ContentProtections = append(x.ContentProtections, DRMDescriptor{...})
\* on the last Representation when there is one, else on the last
\* AdaptationSet
AddContentProtection ==
    /\ CanBuild
    /\ LastA(mpd) > 0
    /\ \E kind \in {"zero", "emptyPssh", "cenc"} :
          LET p == LastP(mpd)
              a == LastA(mpd)
              r == LastR(mpd)
              as == mpd.Period.elems[p].AdaptationSets.elems[a].val
          IN IF r = 0
             THEN Built([mpd EXCEPT
                           !.Period.elems[p].AdaptationSets.elems[a].val.ContentProtections =
                               AppendTo(as.ContentProtections, NewDRMDescriptor(kind))])
             ELSE Built([mpd EXCEPT
                           !.Period.elems[p].AdaptationSets.elems[a].val.Representations.elems[r].ContentProtections =
                               AppendTo(as.Representations.elems[r].ContentProtections,
                                        NewDRMDescriptor(kind))])

\* r.SegmentTemplate = &SegmentTemplate{...} on the last Representation
SetSegmentTemplate ==
    /\ CanBuild
    /\ LastR(mpd) > 0
    /\ \E kind \in {"zero", "emptyTimeline", "timeline"} :
          LET p == LastP(mpd)
              a == LastA(mpd)
              r == LastR(mpd)
          IN /\ mpd.Period.elems[p].AdaptationSets.elems[a].val.Representations.elems[r].SegmentTemplate = Nil
             /\ Built([mpd EXCEPT
                         !.Period.elems[p].AdaptationSets.elems[a].val.Representations.elems[r].SegmentTemplate =
                             NewSegmentTemplate(kind)])

\* b, err := m.Encode()
DoEncode ==
    /\ res.op # "Encode"
    /\ res' = EncodeResult(mpd, src, Encode(mpd))
    /\ UNCHANGED <<mpd, src, nodes, buf, cu, cuRes, old, oldRes, pkg, calls>>

\* m := new(MPD); err := m.Decode(b), for the b the last Encode returned
DoDecode ==
    /\ res.op = "Encode"
    /\ ~res.panicked
    /\ res.err = Nil
    /\ \E r \in {Decode(ZeroValue("MPD"), res.bytes)} :
          /\ mpd' = r.v
          /\ src' = IF r.err = Nil THEN "decoded" ELSE "failed"
          /\ res' = DecodeResult(res, r)
          /\ buf' = [bytes |-> res.bytes, wellFormed |-> TRUE]
    /\ UNCHANGED <<nodes, cu, cuRes, old, oldRes, pkg, calls>>

Next ==
    \/ SetRoot
    \/ AddPeriod
    \/ AddAdaptationSet
    \/ AddRepresentation
    \/ AddContentProtection
    \/ SetSegmentTemplate
    \/ DoEncode
    \/ DoDecode

Spec == Init /\ [][Next]_vars

-----------------------------------------------------------------------------
(* The union attribute on its own: one ConditionalUint, the              *)
(* segmentAlignment of an AdaptationSet, under the operations that read   *)
(* and write it.                                                           *)

\* a document with one AdaptationSet whose SegmentAlignment is c
AlignedDocument(c) ==
    [ZeroValue("MPD") EXCEPT
       !.Period = [elems |-> << [ZeroValue("Period") EXCEPT
                                   !.AdaptationSets = [elems |-> <<
                                       NewPtr([ZeroValue("AdaptationSet") EXCEPT
                                                 !.SegmentAlignment = c], "doc") >>]] >>]]

\* the manifest <MPD><Period><AdaptationSet name="text" .../></Period></MPD>
\* with one attribute per entry of attrs
AlignedManifest(attrs) ==
    <<"<", "MPD", ">", "<", "Period", ">", "<", "AdaptationSet">>
    \o Concat([i \in 1..Len(attrs) |->
                 <<" ">> \o attrs[i].Name \o <<"=", "\"">> \o attrs[i].Value \o <<"\"">>])
    \o <<"/", ">", "<", "/", "Period", ">", "<", "/", "MPD", ">">>

\* the SegmentAlignment of the first AdaptationSet of m, the zero value when
\* m has none
AlignmentOf(m) ==
    IF Count(m.Period) = 0 \/ Count(m.Period.elems[1].AdaptationSets) = 0
    THEN ConditionalUint
    ELSE m.Period.elems[1].AdaptationSets.elems[1].val.SegmentAlignment

\* var c ConditionalUint
CUNew ==
    /\ cuRes.op # "none"
    /\ cu' = ConditionalUint
    /\ cuRes' = NoCUResult
    /\ UNCHANGED <<mpd, src, nodes, buf, res, old, oldRes, pkg, calls>>

\* err := c.UnmarshalXMLAttr(xml.Attr{Name: name, Value: text})
CUUnmarshalXMLAttr ==
    /\ \E text \in AttrTexts, name \in AlignmentNames :
       \E r \in {UnmarshalXMLAttr(cu, [Name |-> name, Value |-> text])} :
          /\ cu' = r.v
          /\ cuRes' = [NoCUResult EXCEPT !.op = "UnmarshalXMLAttr", !.text = text,
                                         !.name = name, !.before = cu, !.err = r.err]
    /\ UNCHANGED <<mpd, src, nodes, buf, res, old, oldRes, pkg, calls>>

\* attr, err := c.MarshalXMLAttr(name)
CUMarshalXMLAttr ==
    /\ \E name \in AlignmentNames :
          cuRes' = [NoCUResult EXCEPT !.op = "MarshalXMLAttr", !.name = name,
                                      !.before = cu, !.attr = MarshalXMLAttr(cu, name)]
    /\ UNCHANGED <<cu, mpd, src, nodes, buf, res, old, oldRes, pkg, calls>>

\* the value as modifyAdaptationSets copies it into the wire type
CUProject ==
    /\ cuRes.op # "modifyAdaptationSets"
    /\ cu' = AlignmentOf(modifyMPD(AlignedDocument(cu)))
    /\ cuRes' = [NoCUResult EXCEPT !.op = "modifyAdaptationSets", !.before = cu]
    /\ UNCHANGED <<mpd, src, nodes, buf, res, old, oldRes, pkg, calls>>

\* Encode of a document whose only AdaptationSet carries the value
CUEncode ==
    /\ cuRes.op \notin {"Encode", "none"}
    /\ cuRes' = [NoCUResult EXCEPT !.op = "Encode", !.name = <<"segmentAlignment">>,
                                   !.before = cu,
                                   !.bytes = Encode(AlignedDocument(cu)).bytes]
    /\ UNCHANGED <<cu, mpd, src, nodes, buf, res, old, oldRes, pkg, calls>>

\* Decode, into a fresh document, of a manifest whose AdaptationSet carries
\* the attribute with the given text
CUDecode ==
    /\ cuRes.op = "none"
    /\ \E text \in AttrTexts :
       \E b \in {AlignedManifest(<<[Name |-> <<"segmentAlignment">>, Value |-> text]>>)} :
       \E r \in {Decode(ZeroValue("MPD"), b)} :
          /\ cu' = AlignmentOf(r.v)
          /\ cuRes' = [NoCUResult EXCEPT !.op = "Decode", !.text = text,
                                         !.name = <<"segmentAlignment">>,
                                         !.bytes = b, !.err = r.err]
    /\ UNCHANGED <<mpd, src, nodes, buf, res, old, oldRes, pkg, calls>>

\* Decode of a manifest that repeats the attribute
CUDecodeRepeated ==
    /\ cuRes.op = "none"
    /\ \E first \in {<<"1">>, <<"true">>}, second \in {<<"0">>, <<"false">>, <<"maybe">>} :
       \E b \in {AlignedManifest(<<[Name |-> <<"segmentAlignment">>, Value |-> first],
                                   [Name |-> <<"segmentAlignment">>, Value |-> second]>>)} :
       \E r \in {Decode(ZeroValue("MPD"), b)} :
          /\ cu' = AlignmentOf(r.v)
          /\ cuRes' = [NoCUResult EXCEPT !.op = "DecodeRepeated", !.text = second,
                                         !.name = <<"segmentAlignment">>,
                                         !.before = UnmarshalXMLAttr(ConditionalUint,
                                             [Name |-> <<"segmentAlignment">>,
                                              Value |-> first]).v,
                                         !.bytes = b, !.err = r.err]
    /\ UNCHANGED <<mpd, src, nodes, buf, res, old, oldRes, pkg, calls>>

NextCU ==
    \/ CUNew
    \/ CUUnmarshalXMLAttr
    \/ CUMarshalXMLAttr
    \/ CUProject
    \/ CUEncode
    \/ CUDecode
    \/ CUDecodeRepeated

SpecCU == Init /\ [][NextCU]_vars

-----------------------------------------------------------------------------
(* The src/mpd.go snapshot under the same kind of caller.                  *)

OldBuilt(m) ==
    /\ old' = m
    /\ nodes' = nodes + 1
    /\ oldRes' = NoResult
    /\ UNCHANGED <<cu, cuRes, mpd, src, buf, res, pkg, calls>>

OldCanBuild == oldRes.op # "Decode" /\ nodes < MaxNodes

\* m.Profiles = ..., m.XMLNS = &...
OldSetRoot ==
    /\ OldCanBuild
    /\ old.XMLNS = Nil
    /\ OldBuilt([old EXCEPT !.XMLNS = Str(DashNS), !.Type = Str(<<"static">>),
                            !.Profiles = <<"urn", ":", "profile">>])

\* m.Period = &Period{...}
OldSetPeriod ==
    /\ OldCanBuild
    /\ old.Period = Nil
    /\ \E kind \in {"zero", "full"} :
          OldBuilt([old EXCEPT !.Period =
                       NewPtr([ZeroValue("old.Period") EXCEPT
                                 !.ID = IF kind = "zero" THEN Nil ELSE Str(<<"p">>)], "doc")])

\* the index of the last AdaptationSet, 0 when there is none or when it is
\* a nil pointer
OldLastA(m) ==
    IF m.Period = Nil THEN 0
    ELSE LET sets == m.Period.val.AdaptationSets
         IN IF Count(sets) = 0 \/ sets.elems[Count(sets)] = Nil THEN 0 ELSE Count(sets)

\* m.Period.AdaptationSets = append(m.Period.AdaptationSets, ...)
OldAddAdaptationSet ==
    /\ OldCanBuild
    /\ old.Period # Nil
    /\ \E kind \in {"nil", "zero", "video"} :
          OldBuilt([old EXCEPT !.Period.val.AdaptationSets =
                       AppendTo(old.Period.val.AdaptationSets, OldNewAdaptationSet(kind))])

\* as.Representations = append(as.Representations, Representation{...})
OldAddRepresentation ==
    /\ OldCanBuild
    /\ OldLastA(old) > 0
    /\ \E kind \in {"zero", "video"} :
          LET a == OldLastA(old)
          IN OldBuilt([old EXCEPT !.Period.val.AdaptationSets.elems[a].val.Representations =
                          AppendTo(old.Period.val.AdaptationSets.elems[a].val.Representations,
                                   OldNewRepresentation(kind))])

\* the index of the last Representation of the last AdaptationSet
OldLastR(m) ==
    IF OldLastA(m) = 0 THEN 0
    ELSE Count(m.Period.val.AdaptationSets.elems[OldLastA(m)].val.Representations)

\* r.ContentProtections = append(r.ContentProtections, Descriptor{...})
OldAddContentProtection ==
    /\ OldCanBuild
    /\ OldLastR(old) > 0
    /\ \E kind \in {"zero", "emptyPssh", "cenc"} :
          LET a == OldLastA(old)
              r == OldLastR(old)
          IN OldBuilt([old EXCEPT
                         !.Period.val.AdaptationSets.elems[a].val.Representations.elems[r].ContentProtections =
                             AppendTo(old.Period.val.AdaptationSets.elems[a].val.Representations.elems[r].ContentProtections,
                                      NewDRMDescriptor(kind))])

\* r.SegmentTemplate = &SegmentTemplate{...}
OldSetSegmentTemplate ==
    /\ OldCanBuild
    /\ OldLastR(old) > 0
    /\ \E kind \in {"zero", "emptyTimeline", "timeline"} :
          LET a == OldLastA(old)
              r == OldLastR(old)
          IN /\ old.Period.val.AdaptationSets.elems[a].val.Representations.elems[r].SegmentTemplate = Nil
             /\ OldBuilt([old EXCEPT
                            !.Period.val.AdaptationSets.elems[a].val.Representations.elems[r].SegmentTemplate =
                                NewSegmentTemplate(kind)])

\* b, err := m.Encode()
OldDoEncode ==
    /\ oldRes.op # "Encode"
    /\ oldRes' = EncodeResult(old, IF oldRes.op = "Decode" THEN "decoded" ELSE "built",
                              OldEncode(old))
    /\ UNCHANGED <<old, nodes, mpd, src, buf, res, cu, cuRes, pkg, calls>>

\* m := new(MPD); err := m.Decode(b), for the b the last Encode returned
OldDoDecode ==
    /\ oldRes.op = "Encode"
    /\ ~oldRes.panicked
    /\ oldRes.err = Nil
    /\ \E r \in {OldDecode(ZeroValue("old.MPD"), oldRes.bytes)} :
          /\ old' = r.v
          /\ oldRes' = DecodeResult(oldRes, r)
    /\ UNCHANGED <<nodes, mpd, src, buf, res, cu, cuRes, pkg, calls>>

NextOld ==
    \/ OldSetRoot
    \/ OldSetPeriod
    \/ OldAddAdaptationSet
    \/ OldAddRepresentation
    \/ OldAddContentProtection
    \/ OldSetSegmentTemplate
    \/ OldDoEncode
    \/ OldDoDecode

SpecOld == Init /\ [][NextOld]_vars


-----------------------------------------------------------------------------
(* Decode on its own: manifests written by hand, decoded into a fresh      *)
(* document or into the document an earlier Decode filled, and encoded.    *)

\* how many times in a row a caller decodes into the same document
MaxDecodes == 2

\* the manifest
\*   <MPD root><Period><AdaptationSet as><Representation><SegmentTemplate>
\*   <SegmentTimeline><S s/></SegmentTimeline></SegmentTemplate>
\*   </Representation></AdaptationSet></Period></MPD>
\* whose root, as and s are the attributes (name, text) written on the MPD,
\* AdaptationSet and S start tags
Manifest(root, as, s) ==
    LET written(attrs) ==
            Concat([i \in 1..Len(attrs) |->
                      <<" ", attrs[i][1], "=", "\"">> \o attrs[i][2] \o <<"\"">>])
    IN <<"<", "MPD">> \o written(root)
       \o <<">", "<", "Period", ">", "<", "AdaptationSet">> \o written(as)
       \o <<">", "<", "Representation", ">", "<", "SegmentTemplate", ">",
            "<", "SegmentTimeline", ">", "<", "S">> \o written(s)
       \o <<"/", ">", "<", "/", "SegmentTimeline", ">", "<", "/", "SegmentTemplate", ">",
            "<", "/", "Representation", ">", "<", "/", "AdaptationSet", ">",
            "<", "/", "Period", ">", "<", "/", "MPD", ">">>

\* the manifest of one Representation with id and bandwidth in an
\* AdaptationSet of the given MIME type, and nothing else but profiles
MinimalManifest ==
    <<"<", "MPD", " ", "profiles", "=", "\"", "p", "\"", ">", "<", "Period", ">",
      "<", "AdaptationSet", " ", "mimeType", "=", "\"", "video", "/", "mp", "4", "\"", ">",
      "<", "Representation", " ", "id", "=", "\"", "1", "\"", " ",
      "bandwidth", "=", "\"", "5", "0", "0", "0", "0", "0", "\"", "/", ">",
      "<", "/", "AdaptationSet", ">", "<", "/", "Period", ">", "<", "/", "MPD", ">">>

\* a manifest with the name space declarations on its root and a Role, a
\* ContentProtection with key id and pssh, a Representation and a
\* SupplementalProperty in its AdaptationSet; a producer writes the key id
\* and the pssh with the prefix cenc: (prefix = <<"cenc", ":">>) or without
\* it (prefix = <<>>);
\* the attributes and the children of the AdaptationSet are written in the
\* order of the Wire Model's fields, or (reversed) in the opposite order
ProtectedManifest(prefix, reversed) ==
    LET written(attrs) ==
            Concat([i \in 1..Len(attrs) |->
                      <<" ">> \o attrs[IF reversed THEN Len(attrs) + 1 - i ELSE i][1]
                      \o <<"=", "\"">>
                      \o attrs[IF reversed THEN Len(attrs) + 1 - i ELSE i][2] \o <<"\"">>])
        cenc == <<<<"xmlns", ":", "cenc">>, <<"c">>>>
        role == <<"<", "Role", " ", "value", "=", "\"", "main", "\"", "/", ">">>
        protection ==
            <<"<", "ContentProtection">>
            \o written(<< <<<<"schemeIdUri">>, <<"u">>>>,
                          <<prefix \o <<"default", "_", "KID">>, <<"k">>>>, cenc >>)
            \o <<">", "<">> \o prefix \o <<"pssh">> \o written(<<cenc>>)
            \o <<">", "data", "<", "/">> \o prefix
            \o <<"pssh", ">", "<", "/", "ContentProtection", ">">>
        representation ==
            <<"<", "Representation", " ", "id", "=", "\"", "1", "\"", "/", ">">>
        supplemental ==
            <<"<", "SupplementalProperty", " ", "value", "=", "\"", "v", "\"", "/", ">">>
    IN <<"<", "MPD">>
       \o written(<< <<<<"xmlns", ":", "xsi">>, <<"x">>>>, cenc,
                     <<<<"xmlns">>, <<"n">>>>,
                     <<<<"xsi", ":", "schemaLocation">>, <<"l">>>>,
                     <<<<"id">>, <<"i">>>>,
                     <<<<"type">>, <<"static">>>>,
                     <<<<"profiles">>, <<"p">>>>,
                     <<<<"xmlns", ":", "scte", "3", "5">>, <<"s">>>> >>)
       \o <<">", "<", "Period", ">", "<", "AdaptationSet">>
       \o written(<< <<<<"mimeType">>, <<"video">>>>, <<<<"lang">>, <<"en">>>> >>)
       \o <<">">>
       \o (IF reversed THEN supplemental \o representation \o protection \o role
           ELSE role \o protection \o representation \o supplemental)
       \o <<"<", "/", "AdaptationSet", ">", "<", "/", "Period", ">", "<", "/", "MPD", ">">>

\* the byte buffers a caller hands to Decode: a manifest with every
\* attribute, manifests that leave attributes out or write them with an
\* empty, zero or false text, manifests with a text that does not parse,
\* one that is cut off before its end, the minimal manifest and the
\* manifests with a ContentProtection
Manifests ==
    LET profiles == <<"profiles", <<"p">>>>
        video    == <<"mimeType", <<"video">>>>
        t        == <<"t", <<"0">>>>
        d        == <<"d", <<"5">>>>
        whole    == Manifest(<<profiles>>, <<video>>, <<t, d>>)
    IN { whole,
         Manifest(<<>>, <<video>>, <<t, d>>),
         Manifest(<<profiles>>, <<video>>, <<t>>),
         Manifest(<<profiles>>, <<>>, <<d>>),
         Manifest(<<profiles>>, <<<<"mimeType", <<>>>>, <<"contentType", <<>>>>>>, <<d>>),
         Manifest(<<profiles>>,
                  <<<<"lang", <<>>>>, <<"startWithSAP", <<"0">>>>,
                    <<"bitstreamSwitching", <<"false">>>>, <<"segmentAlignment", <<"0">>>>>>,
                  <<d, <<"r", <<"0">>>>>>),
         Manifest(<<profiles>>, <<video, <<"segmentAlignment", <<"maybe">>>>>>, <<t, d>>),
         Manifest(<<profiles>>, <<video>>, <<t, <<"d", <<"x">>>>>>),
         SubSeq(whole, 1, Len(whole) - 4),
         MinimalManifest,
         ProtectedManifest(<<"cenc", ":">>, FALSE), ProtectedManifest(<<>>, FALSE),
         ProtectedManifest(<<"cenc", ":">>, TRUE), ProtectedManifest(<<>>, TRUE) }

\* what a Decode of b into the document m (which was new, decoded or
\* failed: s) returned
DecodedInto(m, s, b, r) ==
    [op |-> "Decode", of |-> m, ofSrc |-> s, bytes |-> b, err |-> r.err,
     panicked |-> FALSE]

\* m := new(MPD); err := m.Decode(b)
DecodeNew ==
    /\ \E b \in Manifests :
       \E r \in {Decode(ZeroValue("MPD"), b)} :
          /\ mpd' = r.v
          /\ src' = IF r.err = Nil THEN "decoded" ELSE "failed"
          /\ res' = DecodedInto(ZeroValue("MPD"), "new", b, r)
          /\ buf' = [bytes |-> b, wellFormed |-> r.err = Nil]
    /\ nodes' = 1
    /\ UNCHANGED <<cu, cuRes, old, oldRes, pkg, calls>>

\* err := m.Decode(b) for the m an earlier Decode filled
DecodeAgain ==
    /\ nodes \in 1..(MaxDecodes - 1)
    /\ \E b \in Manifests :
       \E r \in {Decode(mpd, b)} :
          /\ mpd' = r.v
          /\ src' = IF r.err = Nil THEN "decoded" ELSE "failed"
          /\ res' = DecodedInto(mpd, src, b, r)
          /\ buf' = [bytes |-> b, wellFormed |-> r.err = Nil]
    /\ nodes' = nodes + 1
    /\ UNCHANGED <<cu, cuRes, old, oldRes, pkg, calls>>

\* b, err := m.Encode() for the m the last Decode filled
EncodeDecoded ==
    /\ res.op = "Decode"
    /\ res' = EncodeResult(mpd, src, Encode(mpd))
    /\ UNCHANGED <<mpd, src, nodes, buf, cu, cuRes, old, oldRes, pkg, calls>>

NextDecode ==
    \/ DecodeNew
    \/ DecodeAgain
    \/ EncodeDecoded

SpecDecode == Init /\ [][NextDecode]_vars

-----------------------------------------------------------------------------
(* Calls side by side.  Each caller holds its own Document Model instance, *)
(* changes it between calls and calls Encode and Decode on it; a call runs *)
(* statement by statement, and the statements of the calls on different    *)
(* instances interleave.  What a call can reach is its receiver, its       *)
(* argument, its locals and the package-level variables.                   *)

\* most calls begun, on all instances together
MaxCalls == 3

\* the number of calls begun so far
Begun == calls[1].n + calls[2].n

\* the buffers the callers hand to Decode
CallManifests ==
    {MinimalManifest, SubSeq(MinimalManifest, 1, Len(MinimalManifest) - 4)}

\* the caller's assignments between calls: m.Profiles = "p", or
\* m.Period = append(m.Period, Period{})
Mutate(c, k) ==
    IF k = "profiles" THEN [c EXCEPT !.m.Profiles = <<"p">>]
    ELSE [c EXCEPT !.m.Period = AppendTo(c.m.Period, NewPeriod("zero"))]

\* a cache of the projection in a package-level variable: the first call
\* fills it, every later call takes the wire model from it
EncodeProjectCached(g, c, w) ==
    IF "cache" \in DOMAIN g
    THEN [pkg |-> g,
          c |-> [c EXCEPT !.pc = "marshal", !.n = @ + 1, !.x = <<>>, !.xml = g.cache]]
    ELSE [pkg |-> [emptyElementRE |-> g.emptyElementRE, cache |-> w],
          c |-> [c EXCEPT !.pc = "marshal", !.n = @ + 1, !.x = <<>>, !.xml = w]]

\* Encode up to the projection, w being modifyMPD(m):
\*   x := new(bytes.Buffer); e := xml.NewEncoder(x); e.Indent("", "  ")
\*   xml := modifyMPD(m)
\* a panic of the projection ends the call
EncodeProject(g, c, w) ==
    IF w = Panic
    THEN [pkg |-> g,
          c |-> [c EXCEPT !.n = @ + 1,
                          !.ret = [op |-> "Encode", of |-> c.m, after |-> c.m,
                                   bytes |-> <<>>, err |-> Nil, panicked |-> TRUE],
                          !.prev = IF c.ret.op = "Encode" THEN c.ret ELSE c.prev]]
    ELSE [pkg |-> g,
          c |-> [c EXCEPT !.pc = "marshal", !.n = @ + 1, !.x = <<>>, !.xml = w]]

\* an encoder that writes to one package-level buffer instead of the
\* call's own x
EncodeMarshalShared(g, c, out) ==
    [pkg |-> [emptyElementRE |-> g.emptyElementRE,
              x |-> (IF "x" \in DOMAIN g THEN g.x ELSE <<>>) \o out.x],
     c |-> [c EXCEPT !.pc = "canon",
                     !.x = (IF "x" \in DOMAIN g THEN g.x ELSE <<>>) \o out.x]]

\* err := e.Encode(xml), out being what the encoder writes for xml: the
\* bytes go to the call's buffer x, the error is nil
EncodeMarshal(g, c, out) ==
    [pkg |-> g, c |-> [c EXCEPT !.pc = "canon", !.x = c.x \o out.x]]

\* the rest of Encode: res := new(bytes.Buffer), the declaration, the loop
\* that reads x line by line through emptyElementRE, the final newline,
\* return res.Bytes(), err; the locals end with the call
EncodeReturn(g, c) ==
    [pkg |-> g,
     c |-> [c EXCEPT !.pc = "idle", !.xml = Nil, !.x = <<>>,
                     !.ret = [op |-> "Encode", of |-> c.m, after |-> c.m,
                              bytes |-> Canonicalize(c.x, XMLDeclaration),
                              err |-> Nil, panicked |-> FALSE],
                     !.prev = IF c.ret.op = "Encode" THEN c.ret ELSE c.prev]]

\* m.Decode(b) is entered
DecodeCall(c, b) == [c EXCEPT !.pc = "unmarshal", !.n = @ + 1, !.b = b]

\* return xml.Unmarshal(b, m), r being what Unmarshal does to m
DecodeReturn(c, r) ==
    [c EXCEPT !.pc = "idle", !.m = r.v, !.b = <<>>,
              !.ret = [op |-> "Decode", of |-> c.m, after |-> r.v, bytes |-> c.b,
                       err |-> r.err, panicked |-> FALSE]]

\* a caller changes its document between two calls
CallMutate ==
    /\ \E i \in Instances :
          /\ calls[i].pc = "idle"
          /\ \E k \in {"profiles", "period"} :
                /\ k = "profiles" => calls[i].m.Profiles = <<>>
                /\ k = "period" => Count(calls[i].m.Period) = 0
                /\ calls' = [calls EXCEPT ![i] = Mutate(@, k)]
    /\ UNCHANGED <<cu, cuRes, mpd, src, nodes, buf, res, old, oldRes, pkg>>

\* a caller calls m.Encode(): the call runs up to the projection
CallEncode ==
    /\ \E i \in Instances :
          /\ calls[i].pc = "idle"
          /\ Begun < MaxCalls
          /\ \E w \in {modifyMPD(calls[i].m)} :
             \E s \in {EncodeProject(pkg, calls[i], w)} :
                /\ pkg' = s.pkg
                /\ calls' = [calls EXCEPT ![i] = s.c]
    /\ UNCHANGED <<cu, cuRes, mpd, src, nodes, buf, res, old, oldRes>>

\* a running Encode marshals its wire model
CallMarshal ==
    /\ \E i \in Instances :
          /\ calls[i].pc = "marshal"
          /\ \E out \in {xmlEncode(calls[i].xml, "mpdMarshal")} :
             \E s \in {EncodeMarshal(pkg, calls[i], out)} :
                /\ pkg' = s.pkg
                /\ calls' = [calls EXCEPT ![i] = s.c]
    /\ UNCHANGED <<cu, cuRes, mpd, src, nodes, buf, res, old, oldRes>>

\* a running Encode rewrites what was marshalled and returns
CallReturn ==
    /\ \E i \in Instances :
          /\ calls[i].pc = "canon"
          /\ \E s \in {EncodeReturn(pkg, calls[i])} :
                /\ pkg' = s.pkg
                /\ calls' = [calls EXCEPT ![i] = s.c]
    /\ UNCHANGED <<cu, cuRes, mpd, src, nodes, buf, res, old, oldRes>>

\* a caller calls m.Decode(b)
CallDecode ==
    /\ \E i \in Instances :
          /\ calls[i].pc = "idle"
          /\ Begun < MaxCalls
          /\ \E b \in CallManifests :
                calls' = [calls EXCEPT ![i] = DecodeCall(@, b)]
    /\ UNCHANGED <<cu, cuRes, mpd, src, nodes, buf, res, old, oldRes, pkg>>

\* a running Decode unmarshals into its receiver and returns
CallUnmarshal ==
    /\ \E i \in Instances :
          /\ calls[i].pc = "unmarshal"
          /\ \E r \in {Decode(calls[i].m, calls[i].b)} :
                calls' = [calls EXCEPT ![i] = DecodeReturn(@, r)]
    /\ UNCHANGED <<cu, cuRes, mpd, src, nodes, buf, res, old, oldRes, pkg>>

NextCalls ==
    \/ CallMutate
    \/ CallEncode
    \/ CallMarshal
    \/ CallReturn
    \/ CallDecode
    \/ CallUnmarshal

SpecCalls == Init /\ [][NextCalls]_vars
-----------------------------------------------------------------------------
(* Properties.  What Encode wrote is read back with ReadDocument and       *)
(* compared, element by element, with the document it was written from.    *)

\* the child elements of element k that are named name, in order
KidsNamed(D, k, name) == SelectSeq(Kids(D, k), LAMBDA c : D.tags[c].name = name)

\* the elements of the document other than its root
Emitted(D) ==
    {k \in 1..Len(D.tags) : D.tags[k].kind \in {"start", "empty"} /\ k # D.root}

\* the names of the child elements of element k
KidNames(D, k) == {D.tags[Kids(D, k)[c]].name : c \in 1..Len(Kids(D, k))}

\* the names of the attributes written on element k
AttrNames(D, k) == {D.tags[k].attrs[j].Name : j \in 1..Len(D.tags[k].attrs)}

\* element k carries the attribute name with the text value
HasAttr(D, k, name, value) ==
    \E j \in 1..Len(D.tags[k].attrs) :
        D.tags[k].attrs[j].Name = name /\ D.tags[k].attrs[j].Value = value

\* element k carries the optional string p under name when p is set, and no
\* attribute of that name when it is not
AttrIs(D, k, name, p) ==
    IF p = Nil THEN name \notin AttrNames(D, k) ELSE HasAttr(D, k, name, p.val)

\* text is the decimal numeral of the unsigned number n: digits only, no
\* leading zero, denoting n
IsDecimalOf(text, n) ==
    /\ text # <<>>
    /\ \A i \in 1..Len(text) : text[i] \in Digits
    /\ Len(text) = 1 \/ text[1] # "0"
    /\ DigitsToUint(text) = n

\* s is an unsigned-integer string: decimal digits denoting a number that
\* fits the 64 bits of the integer alternative
IsUnsignedInteger(s) ==
    /\ s # <<>>
    /\ \A i \in 1..Len(s) : s[i] \in Digits
    /\ ~DigitsExceed(s, MaxUint64Digits)

\* s is a boolean literal
IsBooleanLiteral(s) == s \in {<<"true">>, <<"false">>}

\* a field of the given kind holds a value: a pointer that is not nil, a
\* union with an alternative, a slice with an entry; a plain string or
\* number always holds one
Holds(val, kind) ==
    CASE kind \in {"pstring", "puint", "pint", "pbool", "pstruct"} -> val # Nil
      [] kind = "cuint" -> val.u # Nil \/ val.b # Nil
      [] kind \in {"slice", "pslice"} -> val # Nil /\ val.elems # <<>>
      [] OTHER -> TRUE

\* the names of the fields of mode `mode` of the struct v that hold a value
HeldHere(v, fields, mode) ==
    {Local(fields[i].name) :
        i \in {j \in 1..Len(fields) : /\ fields[j].mode = mode
                                      /\ Holds(v[fields[j].go], fields[j].kind)}}

\* the struct values directly below the struct v, each with its fields:
\* what its pointers to structs point at and the entries of its slices
Below(v, fields) ==
    UNION {(LET f == fields[i]
                x == v[f.go]
            IN CASE f.mode # "elem" \/ ~Holds(x, f.kind) -> {}
                [] f.kind = "pstruct" -> {<<x.val, TypeInfo(f.type).fields>>}
                [] f.kind = "slice" ->
                       {<<x.elems[j], TypeInfo(f.type).fields>> : j \in 1..Len(x.elems)}
                [] f.kind = "pslice" ->
                       {<<x.elems[j].val, TypeInfo(f.type).fields>> :
                            j \in {n \in 1..Len(x.elems) : x.elems[n] # Nil}}
                [] OTHER -> {})
           : i \in 1..Len(fields)}

RECURSIVE HeldNames(_, _, _)
\* the names of the fields of mode `mode` that hold a value anywhere in the
\* struct v or below it; an element reached through a path a>b brings the
\* names of the path with it
HeldNames(v, fields, mode) ==
    HeldHere(v, fields, mode)
    \cup (IF mode # "elem" THEN {}
          ELSE UNION {{<<fields[i].parents[j]>> : j \in 1..Len(fields[i].parents)} :
                         i \in {j \in 1..Len(fields) :
                                   /\ fields[j].mode = "elem"
                                   /\ Holds(v[fields[j].go], fields[j].kind)}})
    \cup UNION {HeldNames(s[1], s[2], mode) : s \in Below(v, fields)}

\* the element names and the attribute names written anywhere below the root
\* or on it
EmittedElementNames(D) == {Local(D.tags[k].name) : k \in Emitted(D)}

EmittedAttrNames(D) ==
    UNION {{Local(n) : n \in AttrNames(D, k)} : k \in Emitted(D) \cup {D.root}}

\* strings.Split(strings.TrimSpace(s), "\n")
Split(s) ==
    LET t  == TrimSpace(s)
        nl == Positions(t, "\n")
    IN [k \in 1..(Len(nl) + 1) |->
          SubSeq(t, IF k = 1 THEN 1 ELSE nl[k - 1] + 1,
                    IF k <= Len(nl) THEN nl[k] - 1 ELSE Len(t))]

\* func checkLineByLine(c *C, obtained string, expected string): the same
\* number of lines and every line equal
checkLineByLine(obtained, expected) ==
    /\ Len(Split(obtained)) = Len(Split(expected))
    /\ \A i \in 1..Len(Split(obtained)) : Split(obtained)[i] = Split(expected)[i]

\* the timeline entries of the *SegmentTemplate st are the S elements of the
\* SegmentTemplate element below element k, in order
TimelineKept(st, D, k) ==
    LET es == IF st = Nil THEN <<>> ELSE Elems(st.val.SegmentTimelineS)
        ts == KidsNamed(D, k, <<"SegmentTemplate">>)
        tl == IF ts = <<>> THEN <<>> ELSE KidsNamed(D, ts[1], <<"SegmentTimeline">>)
        ss == Concat([j \in 1..Len(tl) |-> KidsNamed(D, tl[j], <<"S">>)])
    IN /\ Len(ss) = Len(es)
       /\ \A i \in 1..Len(es) :
             /\ \E j \in 1..Len(D.tags[ss[i]].attrs) :
                   /\ D.tags[ss[i]].attrs[j].Name = <<"d">>
                   /\ IsDecimalOf(D.tags[ss[i]].attrs[j].Value, es[i].D)
             /\ es[i].T = Nil <=> <<"t">> \notin AttrNames(D, ss[i])
             /\ es[i].R = Nil <=> <<"r">> \notin AttrNames(D, ss[i])

\* the DRM descriptors cps are the ContentProtection elements below element
\* k, in order
ContentProtectionsKept(cps, D, k) ==
    LET ks == KidsNamed(D, k, <<"ContentProtection">>)
    IN /\ Len(ks) = Len(cps)
       /\ \A i \in 1..Len(cps) :
             /\ AttrIs(D, ks[i], <<"schemeIdUri">>, cps[i].SchemeIDURI)
             /\ AttrIs(D, ks[i], <<"value">>, cps[i].Value)
             /\ cps[i].Pssh = Nil <=> KidsNamed(D, ks[i], <<"cenc", ":", "pssh">>) = <<>>

\* the representations rs are the Representation elements below element k,
\* in order, each with its descriptors and timeline entries in order
RepresentationsKept(rs, D, k) ==
    LET ks == KidsNamed(D, k, <<"Representation">>)
    IN /\ Len(ks) = Len(rs)
       /\ \A i \in 1..Len(rs) :
             /\ AttrIs(D, ks[i], <<"id">>, rs[i].ID)
             /\ ContentProtectionsKept(Elems(rs[i].ContentProtections), D, ks[i])
             /\ TimelineKept(rs[i].SegmentTemplate, D, ks[i])

\* the adaptation sets as are the AdaptationSet elements below element k,
\* in order, each with its descriptors and representations in order
AdaptationSetsKept(as, D, k) ==
    LET ks == KidsNamed(D, k, <<"AdaptationSet">>)
    IN /\ Len(ks) = Len(as)
       /\ \A i \in 1..Len(as) :
             /\ AttrIs(D, ks[i], <<"id">>, as[i].val.ID)
             /\ AttrIs(D, ks[i], <<"lang">>, as[i].val.Lang)
             /\ ContentProtectionsKept(Elems(as[i].val.ContentProtections), D, ks[i])
             /\ RepresentationsKept(Elems(as[i].val.Representations), D, ks[i])

\* the periods of m are the Period elements below the root, in order, each
\* with its adaptation sets in order
PeriodsKept(m, D) ==
    LET ks == KidsNamed(D, D.root, <<"Period">>)
        ps == Elems(m.Period)
    IN /\ Len(ks) = Len(ps)
       /\ \A i \in 1..Len(ps) :
             /\ AttrIs(D, ks[i], <<"id">>, ps[i].ID)
             /\ AdaptationSetsKept(Elems(ps[i].AdaptationSets), D, ks[i])

\* the adaptation sets of m, period after period
AllAdaptationSets(m) ==
    Concat([i \in 1..Count(m.Period) |-> Elems(m.Period.elems[i].AdaptationSets)])

\* the representations of m, adaptation set after adaptation set
AllRepresentations(m) ==
    Concat([i \in 1..Len(AllAdaptationSets(m)) |->
               Elems(AllAdaptationSets(m)[i].val.Representations)])

\* the DRM descriptors of m in the order of the output: those of an
\* adaptation set, then those of each of its representations
AllContentProtections(m) ==
    Concat([i \in 1..Len(AllAdaptationSets(m)) |->
               LET a == AllAdaptationSets(m)[i].val
               IN Elems(a.ContentProtections)
                  \o Concat([j \in 1..Count(a.Representations) |->
                                Elems(a.Representations.elems[j].ContentProtections)])])

\* the elements named name anywhere in the document, in order
ElementsNamed(D, name) ==
    SelectSeq(Indices(D.tags), LAMBDA k : k \in Emitted(D) /\ D.tags[k].name = name)

\* the caller assigned every field of the *AdaptationSet a that
\* NewAdaptationSet("set") assigns, the empty ContentType among them
AssignedAdaptationSet(a) ==
    [a.val EXCEPT !.Representations = Nil, !.ContentProtections = Nil]
        = NewAdaptationSet("set").val

\* the caller assigned every field of the Representation r that
\* NewRepresentation("set") assigns, the empty MimeType among them
AssignedRepresentation(r) ==
    [r EXCEPT !.ContentProtections = Nil, !.SegmentTemplate = Nil]
        = NewRepresentation("set")

-----------------------------------------------------------------------------

\* C1: a document that Decode produced, encoded and decoded into a fresh
\* document, gives a document equal to it in every field: the second Decode
\* returns no error and what it leaves equals the document that was encoded.
RoundTrip ==
    res.op = "Decode" /\ res.ofSrc = "decoded" => res.err = Nil /\ mpd = res.of

\* a decoded manifest with its root attributes, a period, an adaptation set
\* and a representation went through Encode and Decode once more
RoundTripWitness ==
    /\ res.op = "Decode" /\ res.ofSrc = "decoded" /\ res.err = Nil
    /\ mpd.XMLNS # Nil
    /\ AllRepresentations(mpd) # <<>>
    /\ AllRepresentations(mpd)[1].BaseURL # Nil

\* C2: a manifest text in the form Encode writes, decoded and encoded
\* again, comes back line for line: Encode returns no error, the same number
\* of lines, and every line equal, after trimming the whole text.
TextRoundTrip ==
    res.op = "Encode" /\ res.ofSrc = "decoded" /\ buf.wellFormed =>
        /\ ~res.panicked
        /\ res.err = Nil
        /\ checkLineByLine(res.bytes, buf.bytes)

\* a text of a dozen lines or more, with a segment timeline, came back
TextRoundTripWitness ==
    /\ res.op = "Encode" /\ res.ofSrc = "decoded" /\ buf.wellFormed
    /\ Len(Split(buf.bytes)) >= 12
    /\ \E i \in 1..Len(buf.bytes) : buf.bytes[i] = "SegmentTimeline"
    /\ checkLineByLine(res.bytes, buf.bytes)

\* C3: UnmarshalXMLAttr, for every text: an unsigned-integer string gives
\* the integer alternative with the number it denotes and no error, the
\* literals true and false give the boolean alternative and no error, and
\* every other text gives an error.
UnionDecodeTotal ==
    cuRes.op = "UnmarshalXMLAttr" =>
        CASE IsUnsignedInteger(cuRes.text) ->
                 /\ cuRes.err = Nil
                 /\ cu.u # Nil
                 /\ cu.u.val = DigitsToUint(cuRes.text)
          [] IsBooleanLiteral(cuRes.text) ->
                 /\ cuRes.err = Nil
                 /\ cu.b # Nil
                 /\ cu.b.val = (cuRes.text = <<"true">>)
          [] OTHER -> cuRes.err # Nil

\* a text that is neither a number nor true/false was accepted as a boolean
UnionDecodeLax ==
    /\ cuRes.op = "UnmarshalXMLAttr"
    /\ cuRes.text = <<"True">>
    /\ cuRes.err = Nil
    /\ cu.b # Nil

\* C4: MarshalXMLAttr renders the decimal digits of the integer alternative
\* when it is present, else true or false when the boolean alternative is
\* present, else no attribute; and Encode of an AdaptationSet writes
\* segmentAlignment accordingly: with both alternatives unset the element
\* carries neither segmentAlignment nor subsegmentAlignment.
UnionEncode ==
    /\ cuRes.op = "MarshalXMLAttr" =>
          CASE cuRes.before.u # Nil ->
                   /\ cuRes.attr.Name = cuRes.name
                   /\ IsDecimalOf(cuRes.attr.Value, cuRes.before.u.val)
            [] cuRes.before.b # Nil ->
                   /\ cuRes.attr.Name = cuRes.name
                   /\ cuRes.attr.Value = (IF cuRes.before.b.val THEN <<"true">>
                                          ELSE <<"false">>)
            [] OTHER -> cuRes.attr = NoAttr
    /\ cuRes.op = "Encode" =>
          LET D  == ReadDocument(cuRes.bytes)
              as == ElementsNamed(D, <<"AdaptationSet">>)
          IN /\ Len(as) = 1
             /\ <<"subsegmentAlignment">> \notin AttrNames(D, as[1])
             /\ CASE cuRes.before.u # Nil ->
                        \E j \in 1..Len(D.tags[as[1]].attrs) :
                            /\ D.tags[as[1]].attrs[j].Name = <<"segmentAlignment">>
                            /\ IsDecimalOf(D.tags[as[1]].attrs[j].Value,
                                           cuRes.before.u.val)
                  [] cuRes.before.b # Nil ->
                        HasAttr(D, as[1], <<"segmentAlignment">>,
                                IF cuRes.before.b.val THEN <<"true">> ELSE <<"false">>)
                  [] OTHER -> <<"segmentAlignment">> \notin AttrNames(D, as[1])

\* an AdaptationSet with both alignment fields unset was encoded
UnionEncodeWitness ==
    /\ cuRes.op = "Encode"
    /\ cuRes.before.u = Nil /\ cuRes.before.b = Nil
    /\ \E i \in 1..Len(cuRes.bytes) : cuRes.bytes[i] = "AdaptationSet"

\* C5: whatever was done to a ConditionalUint, it never holds the integer
\* and the boolean alternative at once.
UnionHoldsOne == ~(cu.u # Nil /\ cu.b # Nil)

\* C6: every element that Encode writes without child elements and without
\* character data is written in self-closing form: no start tag is followed
\* at once by its own end tag.
SelfClosing ==
    res.op = "Encode" /\ ~res.panicked =>
        LET D == ReadDocument(res.bytes)
        IN \A k \in 1..Len(D.tags) :
              D.tags[k].kind = "start" =>
                  ~(D.tags[k].match = k + 1 /\ D.tags[k + 1].p = D.tags[k].q + 1)

\* C7: what Encode writes has no element and no attribute whose field holds
\* nothing anywhere in the document: every element name and every attribute
\* name of the output is the name of a field that holds a value.
AbsentOmitted ==
    oldRes.op = "Encode" /\ ~oldRes.panicked =>
        LET D == ReadDocument(oldRes.bytes)
        IN /\ EmittedElementNames(D)
                \subseteq HeldNames(oldRes.of, TypeInfo("old.MPD").fields, "elem")
           /\ EmittedAttrNames(D)
                \subseteq HeldNames(oldRes.of, TypeInfo("old.MPD").fields, "attr")

\* C8: every field of an AdaptationSet or a Representation that holds a
\* value, a falsy one included, is written: where the caller assigned the
\* fields, the empty string among them, every attribute field that holds a
\* value is an attribute of the element and every element field that holds
\* one is a child element.
FalsyAppears ==
    res.op = "Encode" /\ ~res.panicked /\ res.ofSrc = "built" =>
        LET D  == ReadDocument(res.bytes)
            as == AllAdaptationSets(res.of)
            rs == AllRepresentations(res.of)
            ak == ElementsNamed(D, <<"AdaptationSet">>)
            rk == ElementsNamed(D, <<"Representation">>)
        IN /\ Len(ak) = Len(as)
           /\ Len(rk) = Len(rs)
           /\ \A i \in 1..Len(as) :
                 AssignedAdaptationSet(as[i]) =>
                     /\ HeldHere(as[i].val, TypeInfo("AdaptationSet").fields, "attr")
                            \subseteq AttrNames(D, ak[i])
                     /\ HeldHere(as[i].val, TypeInfo("AdaptationSet").fields, "elem")
                            \subseteq KidNames(D, ak[i])
           /\ \A i \in 1..Len(rs) :
                 AssignedRepresentation(rs[i]) =>
                     /\ HeldHere(rs[i], TypeInfo("Representation").fields, "attr")
                            \subseteq AttrNames(D, rk[i])
                     /\ HeldHere(rs[i], TypeInfo("Representation").fields, "elem")
                            \subseteq KidNames(D, rk[i])

\* C9: what Encode writes has the periods, the adaptation sets of each
\* period, the representations of each adaptation set, the DRM descriptors
\* and the timeline entries in the number and order of the document's
\* sequences.
OrderPreserved ==
    res.op = "Encode" /\ ~res.panicked => PeriodsKept(res.of, ReadDocument(res.bytes))

\* a document with two different representations in one adaptation set was
\* encoded
OrderPreservedWitness ==
    /\ res.op = "Encode" /\ ~res.panicked
    /\ \E i \in 1..Len(AllAdaptationSets(res.of)) :
          LET rs == Elems(AllAdaptationSets(res.of)[i].val.Representations)
          IN Len(rs) = 2 /\ rs[1].ID # rs[2].ID

\* C10: Decode of a manifest whose segmentAlignment is neither an
\* unsigned-integer string nor true/false returns an error, and the error
\* carries the attribute's name and its text.
MalformedUnionRejected ==
    cuRes.op = "Decode" /\ ~IsUnsignedInteger(cuRes.text) /\ ~IsBooleanLiteral(cuRes.text) =>
        /\ cuRes.err # Nil
        /\ "attr" \in DOMAIN cuRes.err
        /\ cuRes.err.attr.Name = <<"segmentAlignment">>
        /\ cuRes.err.attr.Value = cuRes.text

\* the manifest with segmentAlignment="maybe" was refused, with the name and
\* the text in the error
MalformedUnionWitness ==
    /\ cuRes.op = "Decode"
    /\ cuRes.text = <<"maybe">>
    /\ cuRes.err # Nil
    /\ "attr" \in DOMAIN cuRes.err
    /\ cuRes.err.attr.Name = <<"segmentAlignment">>
    /\ cuRes.err.attr.Value = <<"maybe">>

-----------------------------------------------------------------------------
(* Properties of Decode on manifests written by hand, and of what Encode   *)
(* and the projection leave behind.                                        *)

\* the start tags of the buffer that lack an attribute the schema requires:
\* the root without profiles, an S without d
MissingRequired(D) ==
    {k \in 1..Len(D.tags) :
        /\ D.tags[k].kind \in {"start", "empty"}
        /\ \/ k = D.root /\ <<"profiles">> \notin AttrNames(D, k)
           \/ D.tags[k].name = <<"S">> /\ <<"d">> \notin AttrNames(D, k)}

\* C11: Decode of a manifest in which a required attribute is absent (the
\* profiles of the root, the d of a timeline entry) returns an error.
MissingAttributeRejected ==
    (res.op = "Decode" /\ MissingRequired(ReadDocument(res.bytes)) # {})
        => res.err # Nil

\* a well-formed manifest without profiles, or with an S without d, was
\* decoded without error, and the field holds the zero value
MissingAttributeAccepted ==
    /\ res.op = "Decode"
    /\ res.ofSrc = "new"
    /\ MissingRequired(ReadDocument(res.bytes)) # {}
    /\ res.err = Nil
    /\ \/ mpd.Profiles = <<>>
       \/ \E i \in 1..Len(AllRepresentations(mpd)) :
             LET st == AllRepresentations(mpd)[i].SegmentTemplate
             IN st # Nil /\ \E j \in 1..Count(st.val.SegmentTimelineS) :
                               st.val.SegmentTimelineS.elems[j].D = Uint64(0)

\* C12: when Decode returns an error the receiver is as it was before the
\* call: it holds nothing read from the failing input.
FailedDecodeLeavesReceiver ==
    (res.op = "Decode" /\ res.err # Nil) => mpd = res.of

\* a Decode that failed left in a fresh receiver what it had read before
\* the error
FailedDecodeKeepsPart ==
    /\ res.op = "Decode"
    /\ res.err # Nil
    /\ res.of = ZeroValue("MPD")
    /\ mpd.Profiles = <<"p">>

\* the bytes begin with the line <?xml version="1.0" encoding="UTF-8"?>, a
\* body follows, and they end with exactly one newline
Framed(b) ==
    LET line == <<"<", "?", "xml", " ", "version", "=", "\"", "1", ".", "0", "\"", " ",
                  "encoding", "=", "\"", "UTF", "-", "8", "\"", "?", ">", "\n">>
    IN /\ Len(b) > Len(line) + 1
       /\ SubSeq(b, 1, Len(line)) = line
       /\ b[Len(b)] = "\n"
       /\ b[Len(b) - 1] # "\n"

\* C13: in every snapshot, the bytes a successful Encode returns begin with
\* exactly the line <?xml version="1.0" encoding="UTF-8"?>, then the body,
\* and end with exactly one trailing newline.  (Encode of src/mpd.go.)
OutputFramed ==
    (oldRes.op = "Encode" /\ ~oldRes.panicked /\ oldRes.err = Nil)
        => Framed(oldRes.bytes)

\* Encode of src/mpd.go returned bytes that begin with the declaration in
\* lower case and are framed otherwise
LowerCaseDeclaration ==
    /\ oldRes.op = "Encode"
    /\ ~oldRes.panicked
    /\ SubSeq(oldRes.bytes, 1, Len(OldXMLDeclaration) + 1) = OldXMLDeclaration \o <<"\n">>
    /\ oldRes.bytes[Len(oldRes.bytes)] = "\n"
    /\ oldRes.bytes[Len(oldRes.bytes) - 1] # "\n"

\* C14: Encode writes xmlns:cenc on the root exactly when the document has a
\* DRM descriptor somewhere, whatever its other fields, and with the fixed
\* namespace as its value.
DRMNamespaceDeclared ==
    (res.op = "Encode" /\ ~res.panicked) =>
        LET D    == ReadDocument(res.bytes)
            name == <<"xmlns", ":", "cenc">>
        IN /\ name \in AttrNames(D, D.root) <=> AllContentProtections(res.of) # <<>>
           /\ name \in AttrNames(D, D.root) => HasAttr(D, D.root, name, CencNS)

\* Encode returned a manifest with a ContentProtection element and no
\* xmlns:cenc on the root
DRMNamespaceMissing ==
    /\ res.op = "Encode"
    /\ ~res.panicked
    /\ AllContentProtections(res.of) # <<>>
    /\ res.of.Cenc = Nil
    /\ <<"xmlns", ":", "cenc">> \notin AttrNames(ReadDocument(res.bytes),
                                                ReadDocument(res.bytes).root)

RECURSIVE Holders(_, _, _)
\* the optional-value holders of the struct v of type t and of everything
\* below it, in field order: every pointer that is not nil, with the path
\* of field names and slice positions that leads to it, the object graph
\* its cell was allocated for, and what the cell holds (a pointer to a
\* struct is listed for its cell only; what the struct holds follows under
\* longer paths)
Holders(v, t, path) ==
    LET fields == TypeInfo(t).fields
        cell(p, x, val) ==
            IF x = Nil THEN <<>> ELSE <<[path |-> p, own |-> x.own, val |-> val]>>
        of(f) ==
            LET x == v[f.go]
                p == path \o <<f.go>>
            IN CASE f.kind \in {"pstring", "puint", "pint", "pbool"} ->
                      IF x = Nil THEN <<>> ELSE cell(p, x, x.val)
                 [] f.kind = "cuint" ->
                      (IF x.u = Nil THEN <<>> ELSE cell(p \o <<"u">>, x.u, x.u.val))
                      \o (IF x.b = Nil THEN <<>> ELSE cell(p \o <<"b">>, x.b, x.b.val))
                 [] f.kind = "pstruct" ->
                      IF x = Nil THEN <<>>
                      ELSE cell(p, x, "struct") \o Holders(x.val, f.type, p)
                 [] f.kind = "slice" ->
                      Concat([i \in 1..Count(x) |->
                                 Holders(x.elems[i], f.type, p \o <<ToString(i)>>)])
                 [] f.kind = "pslice" ->
                      Concat([i \in 1..Count(x) |->
                                 IF x.elems[i] = Nil THEN <<>>
                                 ELSE cell(p \o <<ToString(i)>>, x.elems[i], "struct")
                                      \o Holders(x.elems[i].val, f.type,
                                                 p \o <<ToString(i)>>)])
                 [] OTHER -> <<>>
    IN Concat([i \in 1..Len(fields) |-> of(fields[i])])

\* the holders of the Wire Model of m whose cell belongs to the document
Shared(m) ==
    SelectSeq(Holders(modifyMPD(m), "mpdMarshal", <<>>), LAMBDA h : h.own = "doc")

\* every holder of hs points at a cell of the document whose holders are
\* gs, and the cell holds what the document holds there
Untouched(hs, gs) ==
    \A i \in 1..Len(hs) :
        \E j \in 1..Len(gs) :
            gs[j].path = hs[i].path /\ gs[j].own = "doc" /\ gs[j].val = hs[i].val

\* C15: after modifyMPD no optional-value holder of the Wire Model shares
\* its storage with the document, at any depth: every cell the Wire Model
\* points at was allocated by the projection.
NoSharedStorage ==
    (res.op = "Encode" /\ ~res.panicked) => Shared(res.of) = <<>>

\* the projection of the encoded document handed on the t of a timeline
\* entry and an alternative of a union attribute as the document holds them
SharedTimeAndUnion ==
    /\ res.op = "Encode"
    /\ ~res.panicked
    /\ LET hs == Shared(res.of)
       IN /\ \E i \in 1..Len(hs) : hs[i].path[Len(hs[i].path)] = "T"
          /\ \E i \in 1..Len(hs) : hs[i].path[Len(hs[i].path)] \in {"u", "b"}

\* C16: Encode and the projection write nothing to the document: after
\* Encode the document is what it was at the call, and every cell of the
\* document that the Wire Model points at holds what the document holds
\* there.
InputNotMutated ==
    res.op = "Encode" =>
        /\ mpd = res.of
        /\ ~res.panicked => Untouched(Shared(res.of), Holders(res.of, "MPD", <<>>))

\* a document was encoded whose cells the Wire Model points at
InputNotMutatedWitness ==
    /\ res.op = "Encode"
    /\ ~res.panicked
    /\ Shared(res.of) # <<>>
    /\ mpd = res.of

\* C17: the projection returns a Wire Model for every document a caller can
\* build, a sequence of adaptation sets with a nil entry included: no
\* Encode panics.
ProjectionTotal == res.op = "Encode" => ~res.panicked

\* Encode of a document with a nil *AdaptationSet panicked
ProjectionPanicked ==
    /\ res.op = "Encode"
    /\ res.panicked
    /\ \E i \in 1..Len(AllAdaptationSets(res.of)) : AllAdaptationSets(res.of)[i] = Nil

\* C20: for every document Encode returns bytes and a nil error.
EncodeReturnsNilError ==
    res.op = "Encode" => (~res.panicked /\ res.err = Nil /\ res.bytes # <<>>)

\* an Encode returned, with bytes and a nil error
EncodeReturned ==
    /\ res.op = "Encode"
    /\ ~res.panicked
    /\ res.err = Nil
    /\ res.bytes # <<>>

\* where the buffer writes an optional attribute with the empty text, 0 or
\* false: the positions of the attributes' names (profiles and d, which the
\* schema requires, are left out)
FalsyAttrs(b) ==
    {i \in 2..(Len(b) - 3) :
        /\ b[i - 1] = " " /\ b[i + 1] = "=" /\ b[i + 2] = "\""
        /\ b[i] \notin {"profiles", "d"}
        /\ \/ b[i + 3] = "\""
           \/ b[i + 3] \in {"0", "false"} /\ b[i + 4] = "\""}

\* the buffer without the attribute whose name is at position i
WithoutAttr(b, i) ==
    SubSeq(b, 1, i - 2)
    \o SubSeq(b, IF b[i + 3] = "\"" THEN i + 4 ELSE i + 5, Len(b))

\* C18: an optional attribute that is absent and one that is present with
\* the empty text, 0 or false are told apart: the manifest with the
\* attribute and the manifest without it decode to different documents,
\* which encode to different outputs.
AbsentDiffersFromFalsy ==
    (res.op = "Decode" /\ res.ofSrc = "new" /\ res.err = Nil) =>
        \A i \in FalsyAttrs(res.bytes) :
            LET without == Decode(ZeroValue("MPD"), WithoutAttr(res.bytes, i)).v
            IN /\ without # mpd
               /\ Encode(without).bytes # Encode(mpd).bytes

\* a manifest with mimeType="" was decoded into the document that the
\* manifest without the attribute decodes into
EmptyMimeTypeLost ==
    /\ res.op = "Decode"
    /\ res.ofSrc = "new"
    /\ res.err = Nil
    /\ \E i \in FalsyAttrs(res.bytes) :
          /\ res.bytes[i] = "mimeType"
          /\ Decode(ZeroValue("MPD"), WithoutAttr(res.bytes, i)).v = mpd

\* C19: what Decode leaves in the receiver depends on the bytes only:
\* decoding b into a document that an earlier Decode filled gives the
\* document that decoding b into a fresh one gives.
DecodeIgnoresReceiver ==
    (res.op = "Decode" /\ res.err = Nil) => mpd = Decode(ZeroValue("MPD"), res.bytes).v

\* the same manifest was decoded twice into one document, which now has its
\* Period twice
DecodedTwice ==
    /\ res.op = "Decode"
    /\ res.err = Nil
    /\ res.of = Decode(ZeroValue("MPD"), res.bytes).v
    /\ Count(res.of.Period) = 1
    /\ Count(mpd.Period) = 2

\* the union value holds exactly one alternative
OneAlternative(c) == (c.u = Nil) # (c.b = Nil)

\* C28: a union value with exactly one alternative, written by
\* MarshalXMLAttr and read by UnmarshalXMLAttr into a fresh value, comes
\* back equal; and the text written for what an accepted text was read as
\* is read and written as itself.
UnionRoundTrip ==
    /\ (cuRes.op = "MarshalXMLAttr" /\ OneAlternative(cu)) =>
          /\ cuRes.attr # NoAttr
          /\ UnmarshalXMLAttr(ConditionalUint, cuRes.attr) = [v |-> cu, err |-> Nil]
    /\ (/\ cuRes.op = "UnmarshalXMLAttr" /\ cuRes.err = Nil
        /\ cuRes.before = ConditionalUint) =>
          LET once  == MarshalXMLAttr(cu, cuRes.name)
              again == MarshalXMLAttr(UnmarshalXMLAttr(ConditionalUint, once).v,
                                      cuRes.name)
          IN once # NoAttr /\ again = once

\* the boolean alternative false was written as the text false
UnionRoundTripWitness ==
    /\ cuRes.op = "MarshalXMLAttr"
    /\ cu.u = Nil
    /\ cu.b # Nil
    /\ ~cu.b.val
    /\ cuRes.attr.Value = <<"false">>

\* the text is a non-empty string of decimal digits
AllDigits(s) == s # <<>> /\ \A i \in 1..Len(s) : s[i] \in Digits

\* C29: an all-digit text that UnmarshalXMLAttr accepts is stored as the
\* number it denotes in the unsigned alternative, the boolean alternative
\* untouched; an all-digit text that denotes more than 1<<64 - 1 is
\* rejected and the value is left as it was.
UnionNoWraparound ==
    (cuRes.op = "UnmarshalXMLAttr" /\ AllDigits(cuRes.text)) =>
        /\ cuRes.err = Nil =>
              /\ cu.u # Nil
              /\ StripZeros(FormatUint(cu.u.val)) = StripZeros(cuRes.text)
              /\ cu.b = cuRes.before.b
        /\ DigitsExceed(StripZeros(cuRes.text), MaxUint64Digits) =>
              cuRes.err # Nil /\ cu = cuRes.before
        /\ ~DigitsExceed(StripZeros(cuRes.text), MaxUint64Digits) => cuRes.err = Nil

\* the digits of 1<<64 were rejected
UnionNoWraparoundWitness ==
    /\ cuRes.op = "UnmarshalXMLAttr"
    /\ AllDigits(cuRes.text)
    /\ DigitsExceed(cuRes.text, MaxUint64Digits)
    /\ cuRes.err # Nil
    /\ cu = cuRes.before

\* reflect.ValueOf(new(t)).Elem().NumField(): the XMLName field counts
NumField(t) == Len(TypeInfo(t).fields) + (IF TypeInfo(t).XMLName = <<>> THEN 0 ELSE 1)

\* two optional values are both absent, or both present with the same value
SameOptional(x, y) == (x = Nil) = (y = Nil) /\ (x # Nil => x.val = y.val)

RECURSIVE Carried(_, _, _, _)
\* the struct w of the wire type u carries the struct v of the document type
\* t: the types have the same number of fields, and every field of v is in
\* w under its own name with its kind, presence and value -- a sequence
\* entry by entry, a struct field by field
Carried(v, w, t, u) ==
    LET fs == TypeInfo(t).fields
        gs == TypeInfo(u).fields
        same(f, g) ==
            LET x == v[f.go]
                y == w[g.go]
            IN /\ f.kind = g.kind
               /\ CASE f.kind \in {"pstring", "puint", "pint", "pbool"} -> SameOptional(x, y)
                    [] f.kind = "cuint" -> SameOptional(x.u, y.u) /\ SameOptional(x.b, y.b)
                    [] f.kind = "pstruct" ->
                          /\ (x = Nil) = (y = Nil)
                          /\ x # Nil /\ y # Nil => Carried(x.val, y.val, f.type, g.type)
                    [] f.kind = "slice" ->
                          /\ Count(x) = Count(y)
                          /\ \A i \in 1..Count(x) :
                                Carried(x.elems[i], y.elems[i], f.type, g.type)
                    [] f.kind = "pslice" ->
                          /\ Count(x) = Count(y)
                          /\ \A i \in 1..Count(x) :
                                /\ (x.elems[i] = Nil) = (y.elems[i] = Nil)
                                /\ x.elems[i] # Nil =>
                                      Carried(x.elems[i].val, y.elems[i].val, f.type, g.type)
                    [] OTHER -> x = y
    IN /\ NumField(t) = NumField(u)
       /\ \A i \in 1..Len(fs) :
             \E j \in 1..Len(gs) : gs[j].go = fs[i].go /\ same(fs[i], gs[j])

\* C23: the Wire Model has, node type by node type, as many fields as the
\* Document Model, and the projection carries the value and the presence of
\* every field of the document into the field of the same name.
\* (modifyXMLStuct of src/mpd.go.)
ProjectionFieldComplete ==
    (oldRes.op = "Encode" /\ ~oldRes.panicked) =>
        Carried(oldRes.of, modifyXMLStuct(oldRes.of), "old.MPD", "old.mpdMarshal")

\* a document without a Period was projected to a Wire Model with one
PeriodDefaulted ==
    /\ oldRes.op = "Encode"
    /\ ~oldRes.panicked
    /\ oldRes.of.Period = Nil
    /\ modifyXMLStuct(oldRes.of).Period # Nil

\* where the text x has the end of a start tag directly followed by an end
\* tag with a name of letters: the positions of the ">" of the start tags
Pairs(x) ==
    {i \in 1..(Len(x) - 4) :
        /\ x[i] = ">" /\ x[i + 1] = "<" /\ x[i + 2] = "/"
        /\ IsLetters(x[i + 3]) /\ x[i + 4] = ">"}

\* the text x with "></name" replaced by "/" at the positions of ps
CollapsedAt(x, ps) ==
    Concat([k \in 1..Len(x) |->
               IF k \in ps THEN <<"/">>
               ELSE IF \E j \in 1..3 : k - j \in ps THEN <<>>
               ELSE <<x[k]>>])

\* C27: the self-closing pass changes nothing but empty open/close pairs:
\* the body of Encode's output is the serializer's output with "></name>"
\* replaced by "/>" where a start tag is directly followed by its own end
\* tag, every other character as the serializer wrote it, line for line.
OnlyEmptyPairsCollapsed ==
    (res.op = "Encode" /\ ~res.panicked) =>
        LET x    == xmlEncode(modifyMPD(res.of), "mpdMarshal").x
            D    == ReadDocument(x)
            body == SubSeq(res.bytes, Len(XMLDeclaration) + 2, Len(res.bytes) - 1)
        IN /\ body = CollapsedAt(x, Pairs(x))
           /\ Len(Positions(body, "\n")) = Len(Positions(x, "\n"))
           /\ \A i \in Pairs(x) :
                 \E k \in 1..Len(D.tags) :
                     /\ D.tags[k].kind = "start"
                     /\ D.tags[k].q = i
                     /\ D.tags[D.tags[k].match].p = i + 1
                     /\ Text(D, k) = <<>>

\* the encoded document has an element with character data and an element
\* without content: the first is written as the serializer wrote it, the
\* second is collapsed
OnlyEmptyPairsWitness ==
    /\ res.op = "Encode"
    /\ ~res.panicked
    /\ Pairs(xmlEncode(modifyMPD(res.of), "mpdMarshal").x) # {}
    /\ \E i \in 1..Len(AllRepresentations(res.of)) :
          /\ AllRepresentations(res.of)[i].BaseURL # Nil
          /\ AllRepresentations(res.of)[i].BaseURL.val # <<>>
    /\ \E k \in 1..Len(ReadDocument(res.bytes).tags) :
          /\ ReadDocument(res.bytes).tags[k].name = <<"BaseURL">>
          /\ ReadDocument(res.bytes).tags[k].kind = "start"

\* the document with only profiles set, one Period, one AdaptationSet of
\* MIME type video/mp4 and one Representation with id "1" and bandwidth
\* 500000
MinimalDocument ==
    [ZeroValue("MPD") EXCEPT
       !.Profiles = <<"p">>,
       !.Period = [elems |-> <<
          [ZeroValue("Period") EXCEPT
             !.AdaptationSets = [elems |-> <<
                NewPtr([ZeroValue("AdaptationSet") EXCEPT
                          !.MimeType = <<"video", "/", "mp", "4">>,
                          !.Representations = [elems |-> <<
                             [ZeroValue("Representation") EXCEPT
                                !.ID = NewPtr(<<"1">>, "doc"),
                                !.Bandwidth = NewPtr(Uint64(500000), "doc")] >>]],
                       "doc") >>]] >>]]

\* C21: the minimal document is encoded to a root with exactly the profiles
\* attribute and exactly one Period, which has exactly one AdaptationSet
\* with mimeType="video/mp4", which has exactly one Representation, in
\* self-closing form, with id="1" bandwidth="500000" and no other attribute.
MinimalEncoded ==
    (res.op = "Encode" /\ res.of = MinimalDocument) =>
        /\ ~res.panicked
        /\ LET D  == ReadDocument(res.bytes)
               ps == Kids(D, D.root)
               as == Kids(D, ps[1])
               rs == Kids(D, as[1])
           IN /\ D.err = Nil
              /\ D.tags[D.root].name = <<"MPD">>
              /\ AttrNames(D, D.root) = {<<"profiles">>}
              /\ Len(D.tags[D.root].attrs) = 1
              /\ Len(ps) = 1 /\ D.tags[ps[1]].name = <<"Period">>
              /\ Len(as) = 1 /\ D.tags[as[1]].name = <<"AdaptationSet">>
              /\ HasAttr(D, as[1], <<"mimeType">>, <<"video", "/", "mp", "4">>)
              /\ Len(rs) = 1 /\ D.tags[rs[1]].name = <<"Representation">>
              /\ D.tags[rs[1]].kind = "empty"
              /\ [j \in 1..Len(D.tags[rs[1]].attrs) |->
                    <<D.tags[rs[1]].attrs[j].Name, D.tags[rs[1]].attrs[j].Value>>]
                 = << <<<<"id">>, <<"1">>>>,
                      <<<<"bandwidth">>, <<"5", "0", "0", "0", "0", "0">>>> >>

\* the minimal document was encoded
MinimalEncodedWitness ==
    /\ res.op = "Encode"
    /\ res.of = MinimalDocument
    /\ ~res.panicked
    /\ res.bytes # <<>>

\* where the buffer writes the key id or the pssh element with the prefix:
\* the positions of the prefix
PrefixedDRM(b) ==
    {i \in 1..(Len(b) - 2) :
        b[i] = "cenc" /\ b[i + 1] = ":" /\ b[i + 2] \in {"default", "pssh"}}

\* the buffer with default_KID and pssh written without the prefix
Unprefixed(b) ==
    SelectSeq([i \in 1..Len(b) |-> IF i \in PrefixedDRM(b) \/ i - 1 \in PrefixedDRM(b)
                                   THEN "" ELSE b[i]],
              LAMBDA tok : tok # "")

\* C24: a manifest that writes cenc:default_KID and cenc:pssh and the
\* manifest that writes default_KID and pssh, the same otherwise, are
\* decoded to equal documents.
PrefixInsensitive ==
    (res.op = "Decode" /\ res.ofSrc = "new" /\ PrefixedDRM(res.bytes) # {}) =>
        /\ Unprefixed(res.bytes) # res.bytes
        /\ Decode(ZeroValue("MPD"), Unprefixed(res.bytes)) = [v |-> mpd, err |-> res.err]

\* a manifest with cenc:default_KID and cenc:pssh was decoded, and the
\* document holds the key id and the pssh
PrefixInsensitiveWitness ==
    /\ res.op = "Decode"
    /\ res.ofSrc = "new"
    /\ res.err = Nil
    /\ Cardinality(PrefixedDRM(res.bytes)) = 3
    /\ Len(AllContentProtections(mpd)) = 1
    /\ AllContentProtections(mpd)[1].CencDefaultKID = NewPtr(<<"k">>, "doc")
    /\ AllContentProtections(mpd)[1].Pssh # Nil
    /\ AllContentProtections(mpd)[1].Pssh.val.Value = NewPtr(<<"data">>, "doc")

\* the name the wire twin of type t gives the field g of t: the
\* serialization-only names, and g's own name everywhere else
WireName(t, g) ==
    CASE t \in {"MPD", "old.MPD"} /\ g.go = "XSI" -> <<"xmlns", ":", "xsi">>
      [] t = "MPD" /\ g.go = "Cenc" -> <<"xmlns", ":", "cenc">>
      [] t \in {"MPD", "old.MPD"} /\ g.go = "SCTE35" -> <<"xmlns", ":", "scte", "3", "5">>
      [] t \in {"MPD", "old.MPD"} /\ g.go = "XSISchemaLocation" -> <<"xsi", ":", "schemaLocation">>
      [] t \in {"DRMDescriptor", "old.Descriptor"} /\ g.go = "CencDefaultKID" ->
            <<"cenc", ":", "default", "_", "KID">>
      [] t \in {"DRMDescriptor", "old.Descriptor"} /\ g.go = "Pssh" ->
            <<"cenc", ":", "pssh">>
      [] t \in {"DRMDescriptor", "old.Descriptor", "Pssh"} /\ g.go = "Cenc" ->
            <<"xmlns", ":", "cenc">>
      [] OTHER -> g.name

\* the types of the document with their wire twins
Twins ==
    { <<"MPD", "mpdMarshal">>, <<"Period", "periodMarshal">>,
      <<"AdaptationSet", "adaptationSetMarshal">>, <<"Role", "roleMarshal">>,
      <<"SupplementalProperty", "supplementalPropertyMarshal">>,
      <<"AudioChannelConfiguration", "audioChannelConfigurationMarshal">>,
      <<"Representation", "representationMarshal">>,
      <<"DRMDescriptor", "drmDescriptorMarshal">>, <<"Pssh", "psshMarshal">>,
      <<"SegmentTemplate", "SegmentTemplate">>,
      <<"SegmentTimelineS", "SegmentTimelineS">>,
      <<"old.MPD", "old.mpdMarshal">>, <<"old.Period", "old.PeriodMarshal">>,
      <<"old.AdaptationSet", "old.adaptationSetMarshal">>,
      <<"old.Representation", "old.representationMarshal">>,
      <<"old.Descriptor", "old.descriptorMarshal">> }

\* every field of the wire type is the field of the same Go name of the
\* document type, under its wire name
NamesAgree(t, u) ==
    LET F == TypeInfo(t).fields
        G == TypeInfo(u).fields
    IN /\ {F[i].go : i \in 1..Len(F)} = {G[j].go : j \in 1..Len(G)}
       /\ \A i \in 1..Len(F), j \in 1..Len(G) :
             F[i].go = G[j].go => G[j].name = WireName(t, F[i])

\* the names the document model gives the serialization-only attributes
UnprefixedAttrs ==
    {<<"xsi">>, <<"cenc">>, <<"schemaLocation">>, <<"scte", "3", "5">>,
     <<"default", "_", "KID">>}

\* C25: Encode writes the key id as cenc:default_KID, the payload element as
\* cenc:pssh, the name spaces as xmlns:cenc, xmlns:xsi and xmlns:scte35 and
\* the schema location as xsi:schemaLocation, each exactly when the document
\* holds it, and never under the name of the document model; every other
\* name of a wire type is the name of the document type's field.
PrefixedNames ==
    /\ \A tw \in Twins : NamesAgree(tw[1], tw[2])
    /\ (res.op = "Encode" /\ ~res.panicked) =>
          LET D   == ReadDocument(res.bytes)
              cps == ElementsNamed(D, <<"ContentProtection">>)
              ds  == AllContentProtections(res.of)
          IN /\ AttrIs(D, D.root, <<"xmlns", ":", "xsi">>, res.of.XSI)
             /\ AttrIs(D, D.root, <<"xmlns", ":", "cenc">>, res.of.Cenc)
             /\ AttrIs(D, D.root, <<"xsi", ":", "schemaLocation">>, res.of.XSISchemaLocation)
             /\ AttrIs(D, D.root, <<"xmlns", ":", "scte", "3", "5">>, res.of.SCTE35)
             /\ \A k \in 1..Len(D.tags) :
                   /\ D.tags[k].kind \in {"start", "empty"} =>
                         AttrNames(D, k) \cap UnprefixedAttrs = {}
                   /\ D.tags[k].name # <<"pssh">>
             /\ Len(cps) = Len(ds)
             /\ \A i \in 1..Len(cps) :
                   /\ AttrIs(D, cps[i], <<"cenc", ":", "default", "_", "KID">>,
                             ds[i].CencDefaultKID)
                   /\ AttrIs(D, cps[i], <<"xmlns", ":", "cenc">>, ds[i].Cenc)
                   /\ KidNames(D, cps[i]) =
                         IF ds[i].Pssh = Nil THEN {} ELSE {<<"cenc", ":", "pssh">>}
                   /\ ds[i].Pssh # Nil =>
                         /\ Len(Kids(D, cps[i])) = 1
                         /\ AttrIs(D, Kids(D, cps[i])[1], <<"xmlns", ":", "cenc">>,
                                   ds[i].Pssh.val.Cenc)

\* a document holding all six was encoded
PrefixedNamesWitness ==
    /\ res.op = "Encode"
    /\ ~res.panicked
    /\ res.of.XSI # Nil /\ res.of.Cenc # Nil
    /\ res.of.XSISchemaLocation # Nil /\ res.of.SCTE35 # Nil
    /\ Len(AllContentProtections(res.of)) = 1
    /\ AllContentProtections(res.of)[1].CencDefaultKID # Nil
    /\ AllContentProtections(res.of)[1].Cenc # Nil
    /\ AllContentProtections(res.of)[1].Pssh # Nil
    /\ AllContentProtections(res.of)[1].Pssh.val.Cenc # Nil
    /\ ElementsNamed(ReadDocument(res.bytes), <<"cenc", ":", "pssh">>) # <<>>

\* the wire type Encode writes the element of this name from
WireTypeOf(name) ==
    CASE name = <<"MPD">> -> "mpdMarshal"
      [] name = <<"Period">> -> "periodMarshal"
      [] name = <<"AdaptationSet">> -> "adaptationSetMarshal"
      [] name = <<"Representation">> -> "representationMarshal"
      [] name = <<"ContentProtection">> -> "drmDescriptorMarshal"
      [] name = <<"cenc", ":", "pssh">> -> "psshMarshal"
      [] name = <<"Role">> -> "roleMarshal"
      [] name = <<"SupplementalProperty">> -> "supplementalPropertyMarshal"
      [] name = <<"AudioChannelConfiguration">> -> "audioChannelConfigurationMarshal"
      [] name = <<"SegmentTemplate">> -> "SegmentTemplate"
      [] name = <<"S">> -> "SegmentTimelineS"
      [] OTHER -> ""

\* the names of the attribute fields of the wire type of the element, in
\* the order of their declaration
AttrLayout(name) ==
    IF WireTypeOf(name) = "" THEN <<>>
    ELSE LET F == SelectSeq(TypeInfo(WireTypeOf(name)).fields, LAMBDA f : f.mode = "attr")
         IN [i \in 1..Len(F) |-> F[i].name]

\* the names of the child elements the fields of the wire type of the
\* element write, in the order of their declaration; SegmentTimeline is the
\* parent the S field of SegmentTemplate names
KidLayout(name) ==
    IF name = <<"SegmentTimeline">> THEN << <<"S">> >>
    ELSE IF WireTypeOf(name) = "" THEN <<>>
    ELSE LET F == SelectSeq(TypeInfo(WireTypeOf(name)).fields, LAMBDA f : f.mode = "elem")
         IN [i \in 1..Len(F) |-> IF F[i].parents # <<>> THEN <<F[i].parents[1]>>
                                 ELSE F[i].name]

\* the place of the name n in the layout, 0 when it has none
Rank(layout, n) ==
    IF \E i \in 1..Len(layout) : layout[i] = n
    THEN CHOOSE i \in 1..Len(layout) :
            layout[i] = n /\ \A j \in 1..(i - 1) : layout[j] # n
    ELSE 0

\* the attributes of element k are in the order of the layout, each once,
\* and its children in the order of the layout, kind after kind
LaidOut(D, k, attrs, kids) ==
    LET as == D.tags[k].attrs
        ks == Kids(D, k)
    IN /\ \A j \in 1..Len(as) : Rank(attrs, as[j].Name) > 0
       /\ \A j \in 1..(Len(as) - 1) : Rank(attrs, as[j].Name) < Rank(attrs, as[j + 1].Name)
       /\ \A j \in 1..Len(ks) : Rank(kids, D.tags[ks[j]].name) > 0
       /\ \A j \in 1..(Len(ks) - 1) :
             Rank(kids, D.tags[ks[j]].name) <= Rank(kids, D.tags[ks[j + 1]].name)

\* the attributes the root carries first and the kinds of children of an
\* AdaptationSet, in the order of the output
RootLayout ==
    << <<"xmlns", ":", "xsi">>, <<"xmlns", ":", "cenc">>, <<"xmlns">>,
       <<"xsi", ":", "schemaLocation">>, <<"id">>, <<"type">> >>

AdaptationSetLayout ==
    << <<"Role">>, <<"ContentProtection">>, <<"Representation">>,
       <<"SupplementalProperty">> >>

\* C30: in what Encode writes, the attributes of every element and the
\* kinds of its children are in the order of the fields of its wire type --
\* on the root xmlns:xsi, xmlns:cenc, xmlns, xsi:schemaLocation, id, type
\* come first and in this order, in an AdaptationSet Role, the
\* ContentProtection elements, the Representation elements,
\* SupplementalProperty -- and a manifest that was decoded is written like
\* the manifest with the same attributes and children in another order.
FixedLayout ==
    (res.op = "Encode" /\ ~res.panicked) =>
        LET D == ReadDocument(res.bytes)
        IN /\ D.err = Nil
           /\ \A k \in Emitted(D) \cup {D.root} :
                 LaidOut(D, k, AttrLayout(D.tags[k].name), KidLayout(D.tags[k].name))
           /\ SubSeq(AttrLayout(<<"MPD">>), 1, 6) = RootLayout
           /\ \A k \in Emitted(D) :
                 D.tags[k].name = <<"AdaptationSet">> =>
                     LaidOut(D, k, AttrLayout(<<"AdaptationSet">>), AdaptationSetLayout)
           /\ \A prefix \in {<<>>, <<"cenc", ":">>} :
                 (nodes = 1 /\ buf.bytes = ProtectedManifest(prefix, TRUE)) =>
                     res.bytes = Encode(Decode(ZeroValue("MPD"),
                                               ProtectedManifest(prefix, FALSE)).v).bytes

\* a manifest with its attributes and the children of its AdaptationSet in
\* the opposite order was decoded and encoded: the root carries the six
\* attributes, the AdaptationSet the four kinds of children
FixedLayoutWitness ==
    /\ res.op = "Encode"
    /\ ~res.panicked
    /\ nodes = 1
    /\ buf.bytes = ProtectedManifest(<<>>, TRUE)
    /\ LET D == ReadDocument(res.bytes)
       IN /\ [j \in 1..6 |-> D.tags[D.root].attrs[j].Name] = RootLayout
          /\ \E k \in Emitted(D) :
                [j \in 1..Len(Kids(D, k)) |-> D.tags[Kids(D, k)[j]].name]
                    = AdaptationSetLayout

\* the Encode that returned ret left its document as it was and returned
\* (or panicked) as e
ReturnedAs(ret, e) ==
    /\ ret.after = ret.of
    /\ IF e = Panic THEN ret.panicked
       ELSE ~ret.panicked /\ ret.bytes = e.bytes /\ ret.err = e.err

\* what the call that returned last on the instance c returned, and the
\* document it left, are what the call does when it runs alone on the
\* document it began with; and a running Encode holds the projection and
\* the marshalled text of its own document
RunsAsAlone(c) ==
    /\ c.ret.op = "Encode" => ReturnedAs(c.ret, Encode(c.ret.of))
    /\ c.ret.op = "Decode" =>
          [v |-> c.ret.after, err |-> c.ret.err] = Decode(c.ret.of, c.ret.bytes)
    /\ c.pc \in {"marshal", "canon"} => c.xml = modifyMPD(c.m)
    /\ c.pc = "canon" => c.x = xmlEncode(modifyMPD(c.m), "mpdMarshal").x
    /\ c.pc = "unmarshal" => c.b \in CallManifests

\* C22: a step of a call on one instance leaves the other instance and the
\* package-level variables (emptyElementRE) as they are, and whatever the
\* interleaving of the steps, every call returns, and leaves in its
\* document, what it returns and leaves when it runs alone.
CallsIndependent ==
    /\ [](pkg = PackageVars /\ \A i \in Instances : RunsAsAlone(calls[i]))
    /\ [][\A i \in Instances, j \in Instances :
             (i # j /\ calls'[i] # calls[i]) => calls'[j] = calls[j]]_vars

\* two Encode calls run side by side on different documents, each has
\* marshalled into its own buffer, and one of the documents was filled by a
\* Decode before
CallsInterleaved ==
    /\ calls[1].pc = "canon"
    /\ calls[2].pc = "canon"
    /\ calls[1].x # calls[2].x
    /\ calls[2].ret.op = "Decode"
    /\ calls[2].ret.err = Nil

\* C26: each Encode returns what encoding the document as it is returns: an
\* Encode of the same document as the Encode before returns the same bytes,
\* an Encode after the caller's assignments writes the profiles and the
\* periods the document has now; and between calls no wire model and no
\* buffer of a call is left.
EncodeStateless ==
    \A i \in Instances :
        /\ calls[i].pc = "idle" => calls[i].xml = Nil /\ calls[i].x = <<>>
        /\ (calls[i].ret.op = "Encode" /\ ~calls[i].ret.panicked) =>
              LET now  == calls[i].ret
                  then == calls[i].prev
                  D    == ReadDocument(now.bytes)
              IN /\ now.bytes = Encode(now.of).bytes
                 /\ HasAttr(D, D.root, <<"profiles">>, now.of.Profiles)
                 /\ Len(KidsNamed(D, D.root, <<"Period">>)) = Count(now.of.Period)
                 /\ (then.op = "Encode" /\ ~then.panicked) =>
                       (now.bytes = then.bytes) = (now.of = then.of)

\* an instance was encoded, changed by its caller and encoded again, and
\* the second output differs from the first
EncodedAfterMutation ==
    \E i \in Instances :
        /\ calls[i].ret.op = "Encode"
        /\ calls[i].prev.op = "Encode"
        /\ calls[i].prev.of # calls[i].ret.of
        /\ calls[i].prev.bytes # calls[i].ret.bytes
        /\ calls[i].n = 2
=============================================================================
